---- MODULE Spec2Model ----
(***************************************************************************)
(* Order checkout and order lifecycle of the medident backend.             *)
(*                                                                         *)
(*   src/order/services.py   create_order_from_checkout                    *)
(*   src/order/views.py      CheckoutCreateView, OrderPaymentUpdateView,   *)
(*                           AdminOrderFulfillmentUpdateView,              *)
(*                           AdminDashboardOverviewView                    *)
(*   src/order/serializers.py  CheckoutCreateSerializer                    *)
(*   src/order/models.py     Order, Checkout, CheckoutItem, DailySales     *)
(*   src/products/models.py  Product                                       *)
(*   src/products/views.py   AdminProductDetailView                        *)
(*   src/accounts/models.py  PhoneOTP                                      *)
(*   src/accounts/utils.py   issue_otp                                     *)
(*   src/accounts/views.py   LoginVerifyView, PasswordResetVerifyView      *)
(*                                                                         *)
(* The database is the shared state.  A checkout is a transaction in two   *)
(* steps: the SELECT ... FOR UPDATE that takes the product row locks and   *)
(* reads the rows, and the rest of the function up to commit or rollback.  *)
(* A payment update is three database steps with no transaction and no     *)
(* lock: the read of the order, the save, the sales recording.  An admin   *)
(* product update is a read and a save of the whole row; a product delete  *)
(* takes with it what cascades from the product.  The dashboard overview   *)
(* is a read of the database.  The issue of an OTP is three database       *)
(* statements and the verification of one is a read and a write, with no   *)
(* transaction and no lock.                                                *)
(***************************************************************************)
EXTENDS Integers, Sequences, FiniteSets, TLC

\* ------------------------------------------------------------------ bounds
MaxQty == 2
MaxStock == 2
MaxPayCalls == 3
MaxDay == 2
MaxPrice == 2
MaxOtps == 2
MaxMinute == 2

\* ------------------------------------------------------- program constants
\* views.py:307: the length of topProducts.
TopN == 5
\* views.py:314: round(conversion_rate, 4) keeps ten-thousandths.
RateScale == 10000
\* accounts/models.py:65: attempts_left of a new PhoneOTP.
DefaultAttempts == 5
\* accounts/utils.py:41: ttl_minutes of the OTPs issue_otp creates.
TtlMinutes == 2

\* ------------------------------------------------------------------ values
\* A nullable integer column: NULL, or Some(n).
NULL == <<>>
Some(n) == <<n>>
Val(x) == x[1]
Products == {"A", "B"}
UnknownId == "X"
ProductIds == Products \cup {UnknownId}
OrderNumbers == {"N1", "N2"}
Txns == {"t1", "t2"}
Reqs == {"r1", "r2"}
Users == {"u1", "u2", "u3"}
\* request.user of each checkout transaction: the two are requests of two users.
SessionUser == [t \in Txns |-> IF t = "t1" THEN "u1" ELSE "u2"]

CREATED == "CREATED"
REQUIRES_PAYMENT == "REQUIRES_PAYMENT"
COMPLETED == "COMPLETED"
UNPAID == "UNPAID"
PAID == "PAID"
FAILED == "FAILED"
UNTRACKED == "UNTRACKED"
SHIPPING == "SHIPPING"
SHIPPED == "SHIPPED"
PaymentStatus == {UNPAID, PAID, FAILED}
FulfillmentStatus == {UNTRACKED, FAILED, SHIPPING, SHIPPED}

\* Outcomes of create_order_from_checkout: the four ValueErrors the view turns
\* into a 400, and the database's IntegrityError.
OK == "OK"
ProductsNotFound == "ProductsNotFound"
OutOfStock == "OutOfStock"
InsufficientStock == "InsufficientStock"
TotalMismatch == "TotalMismatch"
IntegrityError == "IntegrityError"
\* The 400 of the serializer, before create_order_from_checkout is called.
ValidationError == "ValidationError"
\* The 404 of a lookup that finds no row.
NotFound == "NotFound"

\* A cart line as CheckoutItemInputSerializer validates it: quantity >= 1.
Lines == [productId : ProductIds, quantity : 1..MaxQty]
\* The carts submitted: non-empty (validate_items), of one line, or of two lines
\* the second of quantity 1; the productIds of two lines need not differ.
Carts ==
    {<<l>> : l \in Lines}
    \cup {<<l1, l2>> : l1 \in Lines, l2 \in {l \in Lines : l.quantity = 1}}

\* Carts the serializer refuses: no line, or a line of quantity below 1.
BadCarts ==
    {<<>>,
     <<[productId |-> "A", quantity |-> 0]>>,
     <<[productId |-> "A", quantity |-> -1]>>,
     <<[productId |-> "B", quantity |-> 1], [productId |-> "A", quantity |-> 0]>>}

VARIABLES
    products,        \* Product rows: id -> [price_toman, in_stock, stock_quantity]
    orders,          \* Order rows, in creation order
    checkouts,       \* Checkout rows
    checkout_items,  \* CheckoutItem rows
    daily_sales,     \* DailySales rows: date -> [total_toman, orders_count]
    today,           \* the calendar date
    pc,              \* per checkout transaction: "idle" | "locked"
    tx,              \* per checkout transaction: its request and the rows it read
    result,          \* per checkout transaction: outcome of its last call
    ppc,             \* per payment request: "idle" | "loaded" | "saved"
    req,             \* per payment request: the order object it holds in memory
    npay,            \* payment updates started so far
    fired,           \* per order: calls of record_daily_sales_for_order
    edges,           \* per order: saves that changed payment_status to PAID
    refusal,         \* per payment request: its last request, if that was refused
    apc,             \* the admin product update: "idle" | "loaded"
    areq,            \* the admin product update: the Product object in memory
    overview,        \* the last response of the dashboard overview
    otps,            \* PhoneOTP rows, in creation order
    minute,          \* the time, in minutes
    ipc,             \* per issue_otp call: "idle" | "marked" | "created"
    ireq,            \* per issue_otp call: its phone and the row it created
    vpc,             \* per verify request: "idle" | "loaded"
    vreq,            \* per verify request in flight: its input and the row it read
    vresp,           \* per verify request: the response of its last call
    tokens,          \* per PhoneOTP row: verify requests answered with tokens
    guesses,         \* per PhoneOTP row: wrong codes compared with its code
    password         \* per registered phone: the user's password

dbvars == <<products, orders, checkouts, checkout_items>>
covars == <<pc, tx, result>>
payvars == <<ppc, req, npay, fired, edges, refusal>>
admvars == <<apc, areq>>
otpvars == <<otps, minute, ipc, ireq, vpc, vreq, vresp, tokens, guesses, password>>
vars == <<products, orders, checkouts, checkout_items, daily_sales, today,
          pc, tx, result, ppc, req, npay, fired, edges, refusal, apc, areq,
          overview, otps, minute, ipc, ireq, vpc, vreq, vresp, tokens, guesses,
          password>>

NoTx == [user |-> "none", items |-> <<>>, client_total_toman |-> 0, by_id |-> <<>>]
NoAdm == [id |-> "none", row |-> <<>>]
NoReq == [order |-> 0, user |-> "none", was_paid |-> FALSE,
          payment_status |-> UNPAID, status |-> REQUIRES_PAYMENT]
NoRefusal == [user |-> "none", order_number |-> "none", payment_status |-> "none",
              response |-> "none"]

\* ----------------------------------------------------------- checkout: pure
\* services.py:17
ProductIdsOf(items) == {items[i].productId : i \in 1..Len(items)}

\* services.py:18-20: the rows the locking query returns, keyed by id.
ById(prods, items) ==
    [p \in ProductIdsOf(items) \cap DOMAIN prods |-> prods[p]]

\* services.py:21
Missing(items, by_id) ==
    {i \in 1..Len(items) : items[i].productId \notin DOMAIN by_id}

\* services.py:37-39
RECURSIVE ServerTotal(_, _, _)
ServerTotal(items, by_id, i) ==
    IF i > Len(items) THEN 0
    ELSE by_id[items[i].productId].price_toman * items[i].quantity
         + ServerTotal(items, by_id, i + 1)

\* The stock test with >= for >.
RECURSIVE ValidateLinesOffByOne(_, _, _)
ValidateLinesOffByOne(items, by_id, i) ==
    IF i > Len(items) THEN OK
    ELSE LET product == by_id[items[i].productId]
         IN IF ~product.in_stock THEN OutOfStock
            ELSE IF product.stock_quantity # NULL
                    /\ items[i].quantity >= Val(product.stock_quantity)
                 THEN InsufficientStock
            ELSE ValidateLinesOffByOne(items, by_id, i + 1)

\* services.py:28-35: the lines in cart order, the first offending one decides.
RECURSIVE ValidateLines(_, _, _)
ValidateLines(items, by_id, i) ==
    IF i > Len(items) THEN OK
    ELSE LET product == by_id[items[i].productId]
         IN IF ~product.in_stock THEN OutOfStock
            ELSE IF product.stock_quantity # NULL
                    /\ items[i].quantity > Val(product.stock_quantity)
                 THEN InsufficientStock
            ELSE ValidateLines(items, by_id, i + 1)

\* The total test with a tolerance of 1.
TotalsMatchTolerant(client_total, server_total) ==
    client_total <= server_total + 1 /\ server_total <= client_total + 1

\* services.py:51
TotalsMatch(client_total, server_total) == client_total = server_total

\* The column without its CHECK (an IntegerField).
StockCheckOff(v) == TRUE

\* products/models.py:42: PositiveIntegerField carries the column's CHECK
\* (stock_quantity >= 0); NULL passes it.
StockCheck(v) == v = NULL \/ Val(v) >= 0

\* The order with the status the Order model defaults to.
NewOrderDefaultStatus(user, order_number, amount, day) ==
    [order_number |-> order_number, user |-> user, amount_toman |-> amount,
     status |-> CREATED, payment_status |-> UNPAID,
     fulfillment_status |-> UNTRACKED, created_at |-> day]

\* services.py:54-61; fulfillment_status is the default of models.py:33-35.
NewOrder(user, order_number, amount, day) ==
    [order_number |-> order_number, user |-> user, amount_toman |-> amount,
     status |-> REQUIRES_PAYMENT, payment_status |-> UNPAID,
     fulfillment_status |-> UNTRACKED, created_at |-> day]

\* The items with the unit price for the line total.
NewItemsUnitTotal(oid, items, by_id) ==
    {[checkout |-> oid, line |-> i,
      product |-> items[i].productId,
      quantity |-> items[i].quantity,
      unit_price_toman |-> by_id[items[i].productId].price_toman,
      line_total_toman |-> by_id[items[i].productId].price_toman]
     : i \in 1..Len(items)}

\* services.py:41-48, 73-84
NewItems(oid, items, by_id) ==
    {[checkout |-> oid, line |-> i,
      product |-> items[i].productId,
      quantity |-> items[i].quantity,
      unit_price_toman |-> by_id[items[i].productId].price_toman,
      line_total_toman |-> by_id[items[i].productId].price_toman * items[i].quantity]
     : i \in 1..Len(items)}

\* The decrement computed from the row as read, in place of F().
RECURSIVE DecrementStockFromRead(_, _, _, _)
DecrementStockFromRead(prods, items, by_id, i) ==
    IF i > Len(items) THEN [kind |-> OK, products |-> prods]
    ELSE LET p == items[i].productId
             new == IF by_id[p].stock_quantity = NULL THEN NULL
                    ELSE Some(Val(by_id[p].stock_quantity) - items[i].quantity)
         IN IF by_id[p].stock_quantity = NULL
            THEN DecrementStockFromRead(prods, items, by_id, i + 1)
            ELSE IF ~StockCheck(new)
            THEN [kind |-> IntegrityError, products |-> prods]
            ELSE DecrementStockFromRead(
                     [prods EXCEPT ![p].stock_quantity = new], items, by_id, i + 1)

\* services.py:87-92: one UPDATE per line, stock_quantity = F(stock_quantity) - n
\* on the row as the database holds it, for the products whose row, as read,
\* tracks a stock.  A statement the CHECK rejects raises and ends the loop.
RECURSIVE DecrementStock(_, _, _, _)
DecrementStock(prods, items, by_id, i) ==
    IF i > Len(items) THEN [kind |-> OK, products |-> prods]
    ELSE LET p == items[i].productId
             cur == prods[p].stock_quantity
             new == IF cur = NULL THEN NULL ELSE Some(Val(cur) - items[i].quantity)
         IN IF by_id[p].stock_quantity = NULL
            THEN DecrementStock(prods, items, by_id, i + 1)
            ELSE IF ~StockCheck(new)
            THEN [kind |-> IntegrityError, products |-> prods]
            ELSE DecrementStock(
                     [prods EXCEPT ![p].stock_quantity = new], items, by_id, i + 1)

\* The writes with an order_number column that is not unique.
WritesNotUnique(db, r, order_number, day) ==
    LET total == ServerTotal(r.items, r.by_id, 1)
        oid == Len(db.orders) + 1
        db1 == [db EXCEPT
                   !.orders = Append(@, NewOrder(r.user, order_number, total, day)),
                   !.checkouts = @ \cup {[order |-> oid,
                                          client_total_toman |-> r.client_total_toman]},
                   !.checkout_items = @ \cup NewItems(oid, r.items, r.by_id)]
        dec == DecrementStock(db1.products, r.items, r.by_id, 1)
    IN [kind |-> dec.kind, db |-> [db1 EXCEPT !.products = dec.products]]

\* services.py:54-92: the writes, in order.  The result carries the database as
\* the statements so far left it.
Writes(db, r, order_number, day) ==
    LET total == ServerTotal(r.items, r.by_id, 1)
        oid == Len(db.orders) + 1
    IN IF \E i \in 1..Len(db.orders) : db.orders[i].order_number = order_number
       THEN [kind |-> IntegrityError, db |-> db]      \* order_number is unique
       ELSE LET db1 == [db EXCEPT
                    !.orders = Append(@, NewOrder(r.user, order_number, total, day)),
                    !.checkouts = @ \cup {[order |-> oid,
                                          client_total_toman |-> r.client_total_toman]},
                    !.checkout_items = @ \cup NewItems(oid, r.items, r.by_id)]
                dec == DecrementStock(db1.products, r.items, r.by_id, 1)
            IN [kind |-> dec.kind, db |-> [db1 EXCEPT !.products = dec.products]]

\* The function without its decorator: every statement commits on its own.
NotAtomic(db, out) == out

\* services.py:15: @transaction.atomic commits the writes when the function
\* returns and rolls all of them back when it raises.
TransactionAtomic(db, out) ==
    IF out.kind = OK THEN out ELSE [kind |-> out.kind, db |-> db]

\* The function with the total compared before the stock of the lines.
CreateOrderTotalFirst(db, r, order_number, day) ==
    TransactionAtomic(db,
        IF Missing(r.items, r.by_id) # {}
        THEN [kind |-> ProductsNotFound, db |-> db]
        ELSE IF ~TotalsMatch(r.client_total_toman, ServerTotal(r.items, r.by_id, 1))
        THEN [kind |-> TotalMismatch, db |-> db]
        ELSE IF ValidateLines(r.items, r.by_id, 1) # OK
        THEN [kind |-> ValidateLines(r.items, r.by_id, 1), db |-> db]
        ELSE Writes(db, r, order_number, day))

\* services.py:16-94
CreateOrderFromCheckout(db, r, order_number, day) ==
    TransactionAtomic(db,
        IF Missing(r.items, r.by_id) # {}
        THEN [kind |-> ProductsNotFound, db |-> db]
        ELSE IF ValidateLines(r.items, r.by_id, 1) # OK
        THEN [kind |-> ValidateLines(r.items, r.by_id, 1), db |-> db]
        ELSE IF ~TotalsMatch(r.client_total_toman, ServerTotal(r.items, r.by_id, 1))
        THEN [kind |-> TotalMismatch, db |-> db]
        ELSE Writes(db, r, order_number, day))

\* The sum of a cart at the catalog's prices.
RECURSIVE CatalogTotal(_, _)
CatalogTotal(items, i) ==
    IF i > Len(items) THEN 0
    ELSE (IF items[i].productId \in DOMAIN products
          THEN products[items[i].productId].price_toman * items[i].quantity
          ELSE 0)
         + CatalogTotal(items, i + 1)

\* The client totals submitted with a cart: that sum, and a total 1 above it.
TotalOffsets == {0, 1}

\* --------------------------------------------------------------- checkout
DB == [products |-> products, orders |-> orders, checkouts |-> checkouts,
       checkout_items |-> checkout_items]

LockedBy(t) == IF pc[t] = "locked" THEN DOMAIN tx[t].by_id ELSE {}

\* The query without select_for_update.
LockFreeNoWait(t, items) == TRUE

\* services.py:18: select_for_update waits while another transaction holds the
\* lock of a row the query selects.
LockFree(t, items) ==
    \A u \in Txns \ {t} : LockedBy(u) \cap ProductIdsOf(items) = {}

\* The serializer without the minimum of quantity.
IsValidNoMinimum(items) == items # <<>>

\* serializers.py:8, 20-23 (views.py:44-45): is_valid passes the items when
\* every quantity is at least 1 and there is at least one item.
IsValid(items) ==
    /\ \A i \in 1..Len(items) : items[i].quantity >= 1
    /\ items # <<>>

\* views.py:44-45: is_valid(raise_exception=True) raises and the request ends
\* with a 400; create_order_from_checkout is not called.
CO_Reject(t, user, items, client_total) ==
    /\ pc[t] = "idle"
    /\ tx[t] = NoTx
    /\ ~IsValid(items)
    /\ tx' = [tx EXCEPT ![t] = [user |-> user, items |-> items,
                                client_total_toman |-> client_total,
                                by_id |-> <<>>]]
    /\ result' = [result EXCEPT ![t] = ValidationError]
    /\ UNCHANGED <<pc, dbvars, daily_sales, today, payvars, admvars, overview,
                   otpvars>>

\* views.py:43-57 and services.py:15-18: the request passes the serializer, the
\* transaction begins, takes the locks and reads the product rows.  A request
\* that waits for a lock takes this step once the holder has ended.  Each of
\* the two transactions runs one checkout.
CO_Lock(t, user, items, client_total) ==
    /\ pc[t] = "idle"
    /\ tx[t] = NoTx
    /\ IsValid(items)
    /\ LockFree(t, items)
    /\ pc' = [pc EXCEPT ![t] = "locked"]
    /\ tx' = [tx EXCEPT ![t] = [user |-> user, items |-> items,
                                client_total_toman |-> client_total,
                                by_id |-> ById(products, items)]]
    /\ UNCHANGED <<result, dbvars, daily_sales, today, payvars,
                   admvars, overview,
                   otpvars>>

\* services.py:20-94 and views.py:58-61: the rest of the call, to the commit or
\* the rollback that releases the locks.
CO_Run(t, order_number) ==
    /\ pc[t] = "locked"
    /\ LET out == CreateOrderFromCheckout(DB, tx[t], order_number, today)
       IN /\ products' = out.db.products
          /\ orders' = out.db.orders
          /\ checkouts' = out.db.checkouts
          /\ checkout_items' = out.db.checkout_items
          /\ result' = [result EXCEPT ![t] = out.kind]
          /\ fired' = [o \in 1..Len(out.db.orders) |->
                          IF o \in DOMAIN fired THEN fired[o] ELSE 0]
          /\ edges' = [o \in 1..Len(out.db.orders) |->
                          IF o \in DOMAIN edges THEN edges[o] ELSE 0]
    /\ pc' = [pc EXCEPT ![t] = "idle"]
    /\ UNCHANGED <<tx, daily_sales, today, ppc, req, npay, refusal, admvars,
                   overview,
                   otpvars>>

\* ---------------------------------------------------------------- payment
\* The edge test without the previous status.
PaymentConfirmedIgnoringPrevious(was_paid, payment_status) ==
    payment_status = PAID

\* views.py:146: the payment-confirmation edge, from the status read before
\* the update.
PaymentConfirmed(was_paid, payment_status) ==
    ~was_paid /\ payment_status = PAID

\* views.py:142-143: PAID forces COMPLETED; any other value leaves the status
\* the order object was loaded with.
StatusAfter(status, payment_status) ==
    IF payment_status = PAID THEN COMPLETED ELSE status

\* The upsert keyed by the date of the confirmation.
RecordDailySalesToday(ds, order) ==
    IF today \in DOMAIN ds
    THEN [ds EXCEPT ![today] = [total_toman |-> @.total_toman + order.amount_toman,
                                orders_count |-> @.orders_count + 1]]
    ELSE [e \in DOMAIN ds \cup {today} |->
             IF e = today THEN [total_toman |-> order.amount_toman, orders_count |-> 1]
             ELSE ds[e]]

\* record_daily_sales_for_order (imported at views.py:15, not defined in
\* services.py): the upsert of the DailySales row of the order's creation date,
\* as the design describes it.
RecordDailySalesForOrder(ds, order) ==
    LET d == order.created_at
    IN IF d \in DOMAIN ds
       THEN [ds EXCEPT ![d] = [total_toman |-> @.total_toman + order.amount_toman,
                               orders_count |-> @.orders_count + 1]]
       ELSE [e \in DOMAIN ds \cup {d} |->
                IF e = d THEN [total_toman |-> order.amount_toman, orders_count |-> 1]
                ELSE ds[e]]

\* The lookup by the order number alone.
GetOrderOfAnyUser(ords, order_number, user) ==
    {o \in 1..Len(ords) : ords[o].order_number = order_number}

\* views.py:135: the orders of that number that are the user's; order_number
\* being unique, one at most.
GetOrder(ords, order_number, user) ==
    {o \in 1..Len(ords) :
        ords[o].order_number = order_number /\ ords[o].user = user}

\* The values of paymentStatus a request can carry, a value that is not a
\* payment status among them.
Invalid == "INVALID"
PaymentInputs == PaymentStatus \cup {Invalid}

\* order/serializers.py:103-104: the ChoiceField accepts the payment statuses.
IsPaymentStatus(v) == v \in PaymentStatus

\* views.py:135: the user has no order of that number: the request ends with
\* a 404, its body not looked at.
PU_NotFound(r, user, order_number, payment_status) ==
    /\ ppc[r] = "idle"
    /\ GetOrder(orders, order_number, user) = {}
    /\ refusal' = [refusal EXCEPT ![r] =
                      [user |-> user, order_number |-> order_number,
                       payment_status |-> payment_status, response |-> NotFound]]
    /\ UNCHANGED <<dbvars, daily_sales, today, covars, ppc, req, npay, fired,
                   edges, admvars, overview,
                   otpvars>>

\* views.py:135-138: the order is found and the body is refused by the
\* serializer: the request ends with a 400.
PU_Invalid(r, user, order_number, payment_status) ==
    /\ ppc[r] = "idle"
    /\ GetOrder(orders, order_number, user) # {}
    /\ ~IsPaymentStatus(payment_status)
    /\ refusal' = [refusal EXCEPT ![r] =
                      [user |-> user, order_number |-> order_number,
                       payment_status |-> payment_status,
                       response |-> ValidationError]]
    /\ UNCHANGED <<dbvars, daily_sales, today, covars, ppc, req, npay, fired,
                   edges, admvars, overview,
                   otpvars>>

\* views.py:135-143: the order of that number of the user is read, with no
\* lock; the body passes the serializer; the previous status is noted and the
\* new values are set on the object in memory.
PU_Read(r, user, order_number, payment_status) ==
    /\ ppc[r] = "idle"
    /\ npay < MaxPayCalls
    /\ GetOrder(orders, order_number, user) # {}
    /\ IsPaymentStatus(payment_status)
    /\ LET o == CHOOSE x \in GetOrder(orders, order_number, user) : TRUE
       IN req' = [req EXCEPT ![r] =
                     [order |-> o,
                      user |-> user,
                      was_paid |-> orders[o].payment_status = PAID,
                      payment_status |-> payment_status,
                      status |-> StatusAfter(orders[o].status, payment_status)]]
    /\ ppc' = [ppc EXCEPT ![r] = "loaded"]
    /\ npay' = npay + 1
    /\ refusal' = [refusal EXCEPT ![r] = NoRefusal]
    /\ UNCHANGED <<dbvars, daily_sales, today, covars, fired, edges,
                   admvars, overview,
                   otpvars>>

\* The save taking the shipment back when the payment fails.
PU_SaveUntracking(r) ==
    /\ ppc[r] = "loaded"
    /\ LET o == req[r].order
       IN /\ orders' = [orders EXCEPT
                 ![o].payment_status = req[r].payment_status,
                 ![o].status = req[r].status,
                 ![o].fulfillment_status =
                     IF req[r].payment_status = FAILED THEN UNTRACKED ELSE @]
          /\ edges' = [edges EXCEPT ![o] =
                          IF orders[o].payment_status # PAID
                             /\ req[r].payment_status = PAID
                          THEN @ + 1 ELSE @]
    /\ ppc' = [ppc EXCEPT ![r] = "saved"]
    /\ UNCHANGED <<products, checkouts, checkout_items, daily_sales, today,
                   covars, req, npay, fired, refusal, admvars, overview,
                   otpvars>>

\* views.py:144: save(update_fields=["payment_status", "status"]) writes the two
\* fields of the object in memory.
PU_Save(r) ==
    /\ ppc[r] = "loaded"
    /\ LET o == req[r].order
       IN /\ orders' = [orders EXCEPT ![o].payment_status = req[r].payment_status,
                                      ![o].status = req[r].status]
          /\ edges' = [edges EXCEPT ![o] =
                          IF orders[o].payment_status # PAID
                             /\ req[r].payment_status = PAID
                          THEN @ + 1 ELSE @]
    /\ ppc' = [ppc EXCEPT ![r] = "saved"]
    /\ UNCHANGED <<products, checkouts, checkout_items, daily_sales, today,
                   covars, req, npay, fired, refusal, admvars, overview,
                   otpvars>>

\* The last step with a reversal of the sale when a PAID order leaves PAID.
PU_RecordReversing(r) ==
    /\ ppc[r] = "saved"
    /\ LET o == req[r].order
           d == orders[o].created_at
       IN IF PaymentConfirmed(req[r].was_paid, req[r].payment_status)
          THEN /\ daily_sales' = RecordDailySalesForOrder(daily_sales, orders[o])
               /\ fired' = [fired EXCEPT ![o] = @ + 1]
          ELSE /\ daily_sales' =
                      IF req[r].was_paid /\ d \in DOMAIN daily_sales
                      THEN [daily_sales EXCEPT
                               ![d].total_toman = @ - orders[o].amount_toman,
                               ![d].orders_count = @ - 1]
                      ELSE daily_sales
               /\ UNCHANGED fired
    /\ ppc' = [ppc EXCEPT ![r] = "idle"]
    /\ req' = [req EXCEPT ![r] = NoReq]
    /\ UNCHANGED <<dbvars, today, covars, npay, edges, refusal, admvars,
                   overview,
                   otpvars>>

\* views.py:146-149: the sale is recorded on the edge, and the response is sent.
PU_Record(r) ==
    /\ ppc[r] = "saved"
    /\ LET o == req[r].order
       IN IF PaymentConfirmed(req[r].was_paid, req[r].payment_status)
          THEN /\ daily_sales' = RecordDailySalesForOrder(daily_sales, orders[o])
               /\ fired' = [fired EXCEPT ![o] = @ + 1]
          ELSE UNCHANGED <<daily_sales, fired>>
    /\ ppc' = [ppc EXCEPT ![r] = "idle"]
    /\ req' = [req EXCEPT ![r] = NoReq]
    /\ UNCHANGED <<dbvars, today, covars, npay, edges, refusal, admvars,
                   overview,
                   otpvars>>

\* views.py:144-147: the save has committed, there being no transaction around
\* the handler, and the recording raises (a database error): the request ends
\* in a 500 with the sale not recorded.
PU_RecordFails(r) ==
    /\ ppc[r] = "saved"
    /\ PaymentConfirmed(req[r].was_paid, req[r].payment_status)
    /\ ppc' = [ppc EXCEPT ![r] = "idle"]
    /\ req' = [req EXCEPT ![r] = NoReq]
    /\ UNCHANGED <<dbvars, daily_sales, today, covars, npay, fired, edges,
                   refusal, admvars, overview,
                   otpvars>>

\* The place of a fulfillment status in the usual course of a shipment.
Rank(f) == IF f = UNTRACKED THEN 0 ELSE IF f = SHIPPING THEN 1 ELSE 2

\* The update refusing to go back in the course of the shipment.
FU_SetForwardOnly(o, fulfillment_status) ==
    /\ o \in 1..Len(orders)
    /\ Rank(fulfillment_status) >= Rank(orders[o].fulfillment_status)
    /\ orders' = [orders EXCEPT ![o].fulfillment_status = fulfillment_status]
    /\ UNCHANGED <<products, checkouts, checkout_items, daily_sales, today,
                   covars, payvars, admvars, overview,
                   otpvars>>

\* views.py:231-240: the fulfillment status is set, whatever it was.
FU_Set(o, fulfillment_status) ==
    /\ o \in 1..Len(orders)
    /\ orders' = [orders EXCEPT ![o].fulfillment_status = fulfillment_status]
    /\ UNCHANGED <<products, checkouts, checkout_items, daily_sales, today,
                   covars, payvars, admvars, overview,
                   otpvars>>

\* ---------------------------------------------------------------- catalog
\* A row no checkout transaction holds the lock of: a write of the row waits
\* until then.
Unlocked(p) == \A t \in Txns : p \notin LockedBy(t)

\* products/views.py:279-284 and products/serializers.py:219-230: PATCH of
\* priceToman.  get_object reads the product, with no lock; the serializer sets
\* the new price on the object in memory.
AP_Read(p, price) ==
    /\ apc = "idle"
    /\ p \in DOMAIN products
    /\ apc' = "loaded"
    /\ areq' = [id |-> p, row |-> [products[p] EXCEPT !.price_toman = price]]
    /\ UNCHANGED <<dbvars, daily_sales, today, covars, payvars, overview,
                   otpvars>>

\* The save with the items of the product repriced at the new price.
AP_SaveRepricing ==
    /\ apc = "loaded"
    /\ Unlocked(areq.id)
    /\ products' = [q \in DOMAIN products \cup {areq.id} |->
                        IF q = areq.id THEN areq.row ELSE products[q]]
    /\ checkout_items' =
          {IF x.product = areq.id
           THEN [x EXCEPT !.unit_price_toman = areq.row.price_toman,
                          !.line_total_toman = areq.row.price_toman * x.quantity]
           ELSE x : x \in checkout_items}
    /\ apc' = "idle"
    /\ areq' = NoAdm
    /\ UNCHANGED <<orders, checkouts, daily_sales, today, covars,
                   payvars, overview,
                   otpvars>>

\* products/serializers.py:230: super().update saves the object, every column
\* of it as the object holds it; a save whose UPDATE matches no row inserts it.
AP_Save ==
    /\ apc = "loaded"
    /\ Unlocked(areq.id)
    /\ products' = [q \in DOMAIN products \cup {areq.id} |->
                        IF q = areq.id THEN areq.row ELSE products[q]]
    /\ apc' = "idle"
    /\ areq' = NoAdm
    /\ UNCHANGED <<orders, checkouts, checkout_items, daily_sales, today,
                   covars, payvars, overview,
                   otpvars>>

\* order/models.py:57: the rows that go with a product when it is deleted, as
\* on_delete names them.
OnDeleteCascade(items, p) == {x \in items : x.product # p}

\* products/views.py:220 (DestroyModelMixin): DELETE removes the product and
\* what cascades from it.
AP_Delete(p) ==
    /\ p \in DOMAIN products
    /\ Unlocked(p)
    /\ products' = [q \in DOMAIN products \ {p} |-> products[q]]
    /\ checkout_items' = OnDeleteCascade(checkout_items, p)
    /\ UNCHANGED <<orders, checkouts, daily_sales, today, covars, payvars,
                   admvars, overview,
                   otpvars>>

\* The calendar date advances.
Tick ==
    /\ today < MaxDay
    /\ today' = today + 1
    /\ UNCHANGED <<dbvars, daily_sales, covars, payvars, admvars, overview,
                   otpvars>>

\* -------------------------------------------------------------- dashboard
\* The orders of every payment status, for the paid ones.
PaidOrdersUnfiltered(ords) == 1..Len(ords)

\* views.py:291: Order.objects.filter(payment_status=PAID), as order ids.
PaidOrders(ords) == {o \in 1..Len(ords) : ords[o].payment_status = PAID}

\* views.py:293-296: Coalesce(Sum("amount_toman"), 0) over a set of orders.
RECURSIVE SumAmount(_, _)
SumAmount(ords, S) ==
    IF S = {} THEN 0
    ELSE LET o == CHOOSE x \in S : TRUE
         IN ords[o].amount_toman + SumAmount(ords, S \ {o})

\* views.py:298: values("user_id").distinct().count()
TotalCustomers(ords) == Cardinality({ords[o].user : o \in 1..Len(ords)})

\* views.py:314: round(x, 4) of the quotient n / d, in ten-thousandths: the
\* nearest, the even one of two equally near.
Round4(n, d) ==
    LET q == (RateScale * n) \div d
        r == (RateScale * n) % d
    IN IF 2 * r > d THEN q + 1
       ELSE IF 2 * r < d THEN q
       ELSE IF q % 2 = 0 THEN q ELSE q + 1

\* views.py:299, 314
ConversionRate(total_orders, total_customers) ==
    IF total_customers # 0 THEN Round4(total_orders, total_customers) ELSE 0

\* views.py:301-305: the keys of the grouped join of the paid orders with
\* their items, an outer join: a paid order without items gives the key NULL.
GroupKeys(paid, items) ==
    {Some(x.product) : x \in {y \in items : y.checkout \in paid}}
    \cup (IF \E o \in paid : \A y \in items : y.checkout # o THEN {NULL} ELSE {})

\* views.py:306: Coalesce(Sum("checkout__items__quantity"), 0) of a group.
RECURSIVE SumQuantity(_)
SumQuantity(items) ==
    IF items = {} THEN 0
    ELSE LET x == CHOOSE y \in items : TRUE
         IN x.quantity + SumQuantity(items \ {x})

\* views.py:301-306: the grouped rows (the title goes with the product id).
GroupedRows(paid, items) ==
    {[product_id |-> k,
      quantity_sold |->
          IF k = NULL THEN 0
          ELSE SumQuantity({y \in items : y.checkout \in paid /\ y.product = Val(k)})]
     : k \in GroupKeys(paid, items)}

\* views.py:307: order_by("-quantity_sold"); the order of rows of equal
\* quantity_sold is the database's, so every such order is a result.
RECURSIVE OrderByQuantityDesc(_)
OrderByQuantityDesc(rows) ==
    IF rows = {} THEN {<<>>}
    ELSE LET top == {r \in rows :
                        \A q \in rows : r.quantity_sold >= q.quantity_sold}
         IN UNION {{<<r>> \o rest : rest \in OrderByQuantityDesc(rows \ {r})}
                   : r \in top}

\* The rows without the limit.
NoLimit(rows) == rows

\* views.py:307: [:5]
FirstFive(rows) ==
    IF Len(rows) <= TopN THEN rows ELSE SubSeq(rows, 1, TopN)

\* views.py:315-323: the rows with a product id, as the response lists them.
RECURSIVE WithProductId(_)
WithProductId(rows) ==
    IF rows = <<>> THEN <<>>
    ELSE (IF Head(rows).product_id # NULL
          THEN <<[productId |-> Val(Head(rows).product_id),
                  quantitySold |-> Head(rows).quantity_sold]>>
          ELSE <<>>)
         \o WithProductId(Tail(rows))

\* views.py:301-323: the topProducts the response can carry.
TopProducts(ords, items) ==
    {WithProductId(FirstFive(rows))
     : rows \in OrderByQuantityDesc(GroupedRows(PaidOrders(ords), items))}

\* views.py:287-327: GET of the dashboard overview.
DashboardGet ==
    /\ \E top \in TopProducts(orders, checkout_items) :
          overview' = Some(
              [totalRevenueToman |-> SumAmount(orders, PaidOrders(orders)),
               totalOrders |-> Cardinality(PaidOrders(orders)),
               totalCustomers |-> TotalCustomers(orders),
               conversionRate |-> ConversionRate(Cardinality(PaidOrders(orders)),
                                                 TotalCustomers(orders)),
               topProducts |-> top])
    /\ UNCHANGED <<dbvars, daily_sales, today, covars, payvars, admvars,
                   otpvars>>

\* -------------------------------------------------------------------- OTP
Phones == {"p1", "p2"}
\* The phones of the users there are: p2 is the phone of no user.
Registered == {"p1"}
Issuers == {"i1", "i2"}
Verifiers == {"v1", "v2"}
Kinds == {"login", "reset"}

\* accounts/models.py:73: the code a row is created with.
Placeholder == "000000"
\* accounts/utils.py:14-15: generate_code gives five digits.
Generated == {"12345", "54321"}
\* A code of four digits.
ShortCode == "1234"
CodeInputs == Generated \cup {Placeholder, ShortCode}

CodeLength(c) == IF c = Placeholder THEN 6 ELSE IF c = ShortCode THEN 4 ELSE 5

\* accounts/serializers.py:32: CharField(min_length=5, max_length=6)
IsValidCode(c) == CodeLength(c) >= 5 /\ CodeLength(c) <= 6

OldPassword == "pw0"
NewPassword == "pw1"

Expired == "Expired"
NoAttemptsLeft == "NoAttemptsLeft"
InvalidOtp == "InvalidOtp"
Tokens == "Tokens"
Pending == "Pending"

NoIssue == [phone |-> "none", otp |-> 0]
NoVerify == [kind |-> "none", phone |-> "none", code |-> "none", otp |-> 0,
             attempts_left |-> 0, matches |-> FALSE]

\* accounts/models.py:70: the rows create_for_phone marks used.
MarkUsed(rows, phone, now) ==
    [k \in DOMAIN rows |->
        IF rows[k].phone = phone /\ ~rows[k].used /\ rows[k].expires_at >= now
        THEN [rows[k] EXCEPT !.used = TRUE]
        ELSE rows[k]]

\* accounts/models.py:71-75: the row create_for_phone creates.
NewOtp(phone, now) ==
    [phone |-> phone, code |-> Placeholder, expires_at |-> now + TtlMinutes,
     attempts_left |-> DefaultAttempts, used |-> FALSE]

\* accounts/models.py:78-79
IsExpired(otp, now) == now >= otp.expires_at

\* accounts/views.py:107, 186: filter(phone=phone, used=False)
UnusedOtps(rows, phone) ==
    {k \in DOMAIN rows : rows[k].phone = phone /\ ~rows[k].used}

\* accounts/views.py:107, 186: order_by("-created_at").first()
Latest(S) == CHOOSE k \in S : \A j \in S : j <= k

\* accounts/views.py:107-117, 186-196: the lookup and the tests on the object
\* read, up to the comparison of the code.
VerifyLookup(rows, phone, code, now) ==
    IF UnusedOtps(rows, phone) = {} THEN [response |-> NotFound, otp |-> 0]
    ELSE LET k == Latest(UnusedOtps(rows, phone))
         IN IF IsExpired(rows[k], now) THEN [response |-> Expired, otp |-> k]
            ELSE IF rows[k].attempts_left = 0
            THEN [response |-> NoAttemptsLeft, otp |-> k]
            ELSE [response |-> Pending, otp |-> k]

\* accounts/utils.py:39-41 and accounts/models.py:70: issue_otp begins; the
\* unused unexpired rows of the phone are marked used, in one UPDATE.
I_MarkUsed(i, phone) ==
    /\ ipc[i] = "idle"
    /\ Len(otps) + Cardinality({j \in Issuers : ipc[j] = "marked"}) < MaxOtps
    /\ otps' = MarkUsed(otps, phone, minute)
    /\ ipc' = [ipc EXCEPT ![i] = "marked"]
    /\ ireq' = [ireq EXCEPT ![i] = [phone |-> phone, otp |-> 0]]
    /\ UNCHANGED <<dbvars, daily_sales, today, covars, payvars, admvars, overview,
                   minute, vpc, vreq, vresp, tokens, guesses, password>>

\* accounts/models.py:71-76: the row is created, with the placeholder code.
I_Create(i) ==
    /\ ipc[i] = "marked"
    /\ otps' = Append(otps, NewOtp(ireq[i].phone, minute))
    /\ tokens' = Append(tokens, 0)
    /\ guesses' = Append(guesses, 0)
    /\ ipc' = [ipc EXCEPT ![i] = "created"]
    /\ ireq' = [ireq EXCEPT ![i].otp = Len(otps) + 1]
    /\ UNCHANGED <<dbvars, daily_sales, today, covars, payvars, admvars, overview,
                   minute, vpc, vreq, vresp, password>>

\* accounts/utils.py:42-45: the code is generated, saved with
\* save(update_fields=["code"]) and sent; issue_otp returns.
I_SetCode(i, code) ==
    /\ ipc[i] = "created"
    /\ otps' = [otps EXCEPT ![ireq[i].otp].code = code]
    /\ ipc' = [ipc EXCEPT ![i] = "idle"]
    /\ ireq' = [ireq EXCEPT ![i] = NoIssue]
    /\ UNCHANGED <<dbvars, daily_sales, today, covars, payvars, admvars, overview,
                   minute, vpc, vreq, vresp, tokens, guesses, password>>

\* accounts/views.py:101-102, 179-180: the serializer refuses the code.
V_Reject(v, kind, phone, code) ==
    /\ vpc[v] = "idle"
    /\ ~IsValidCode(code)
    /\ vresp' = [vresp EXCEPT ![v] = ValidationError]
    /\ UNCHANGED <<dbvars, daily_sales, today, covars, payvars, admvars, overview,
                   otps, minute, ipc, ireq, vpc, vreq, tokens, guesses, password>>

\* accounts/views.py:100-117, 178-196: the latest unused row of the phone is
\* read, with no lock.  Without such a row, with an expired one or with one
\* that has no attempt left the request ends; else the code is compared with
\* the code of the row as read.
V_Read(v, kind, phone, code) ==
    /\ vpc[v] = "idle"
    /\ IsValidCode(code)
    /\ LET out == VerifyLookup(otps, phone, code, minute)
           k == out.otp
       IN IF out.response = Pending
          THEN /\ vpc' = [vpc EXCEPT ![v] = "loaded"]
               /\ vreq' = [vreq EXCEPT ![v] =
                              [kind |-> kind, phone |-> phone, code |-> code,
                               otp |-> k,
                               attempts_left |-> otps[k].attempts_left,
                               matches |-> otps[k].code = code]]
               /\ vresp' = [vresp EXCEPT ![v] = "none"]
               /\ guesses' = [guesses EXCEPT ![k] =
                                 IF otps[k].code # code THEN @ + 1 ELSE @]
          ELSE /\ vresp' = [vresp EXCEPT ![v] = out.response]
               /\ UNCHANGED <<vpc, vreq, guesses>>
    /\ UNCHANGED <<dbvars, daily_sales, today, covars, payvars, admvars, overview,
                   otps, minute, ipc, ireq, tokens, password>>

\* accounts/views.py:117-131, 196-212: after a wrong code the attempts left, as
\* read and less 1, are saved with save(update_fields=["attempts_left"]); after
\* the right one used is saved with save(update_fields=["used"]), the user of
\* the phone is looked up, a password reset sets the password, and the tokens
\* are issued.
V_Write(v) ==
    /\ vpc[v] = "loaded"
    /\ LET k == vreq[v].otp
           phone == vreq[v].phone
       IN IF ~vreq[v].matches
          THEN /\ otps' = [otps EXCEPT ![k].attempts_left = vreq[v].attempts_left - 1]
               /\ vresp' = [vresp EXCEPT ![v] = InvalidOtp]
               /\ UNCHANGED <<tokens, password>>
          ELSE /\ otps' = [otps EXCEPT ![k].used = TRUE]
               /\ IF phone \in Registered
                  THEN /\ tokens' = [tokens EXCEPT ![k] = @ + 1]
                       /\ password' =
                             IF vreq[v].kind = "reset"
                             THEN [password EXCEPT ![phone] = NewPassword]
                             ELSE password
                       /\ vresp' = [vresp EXCEPT ![v] = Tokens]
                  ELSE /\ vresp' = [vresp EXCEPT ![v] = NotFound]
                       /\ UNCHANGED <<tokens, password>>
    /\ vpc' = [vpc EXCEPT ![v] = "idle"]
    /\ vreq' = [vreq EXCEPT ![v] = NoVerify]
    /\ UNCHANGED <<dbvars, daily_sales, today, covars, payvars, admvars, overview,
                   minute, ipc, ireq, guesses>>

\* A minute passes.
OtpTick ==
    /\ minute < MaxMinute
    /\ minute' = minute + 1
    /\ UNCHANGED <<dbvars, daily_sales, today, covars, payvars, admvars, overview,
                   otps, ipc, ireq, vpc, vreq, vresp, tokens, guesses, password>>

\* No OTP issued, no request in flight.
InitOtp ==
    /\ otps = <<>>
    /\ minute = 0
    /\ ipc = [i \in Issuers |-> "idle"]
    /\ ireq = [i \in Issuers |-> NoIssue]
    /\ vpc = [v \in Verifiers |-> "idle"]
    /\ vreq = [v \in Verifiers |-> NoVerify]
    /\ vresp = [v \in Verifiers |-> "none"]
    /\ tokens = <<>>
    /\ guesses = <<>>
    /\ password = [p \in Registered |-> OldPassword]

\* ------------------------------------------------------------------- init
Init ==
    /\ \E s \in 0..MaxStock, b \in BOOLEAN :
          products = [p \in Products |->
              IF p = "A"
              THEN [price_toman |-> 2, in_stock |-> b, stock_quantity |-> Some(s)]
              ELSE [price_toman |-> 1, in_stock |-> TRUE, stock_quantity |-> NULL]]
    /\ orders = <<>>
    /\ checkouts = {}
    /\ checkout_items = {}
    /\ daily_sales = <<>>
    /\ today = 1
    /\ pc = [t \in Txns |-> "idle"]
    /\ tx = [t \in Txns |-> NoTx]
    /\ result = [t \in Txns |-> "none"]
    /\ ppc = [r \in Reqs |-> "idle"]
    /\ req = [r \in Reqs |-> NoReq]
    /\ npay = 0
    /\ refusal = [r \in Reqs |-> NoRefusal]
    /\ fired = <<>>
    /\ edges = <<>>
    /\ apc = "idle"
    /\ areq = NoAdm
    /\ overview = NULL
    /\ InitOtp

\* ---------------------------------------------------------- specifications
Checkout ==
    \/ \E t \in Txns, items \in Carts \cup BadCarts, d \in TotalOffsets :
          CO_Lock(t, SessionUser[t], items, CatalogTotal(items, 1) + d)
    \/ \E t \in Txns, items \in Carts \cup BadCarts :
          CO_Reject(t, SessionUser[t], items, CatalogTotal(items, 1))
    \/ \E t \in Txns, n \in OrderNumbers : CO_Run(t, n)

\* The payment updates of the owner of the order, with a payment status.
Payment ==
    \/ \E r \in Reqs, o \in 1..Len(orders), s \in PaymentStatus :
          PU_Read(r, orders[o].user, orders[o].order_number, s)
    \/ \E r \in Reqs : PU_Save(r)
    \/ \E r \in Reqs : PU_Record(r)
    \/ \E r \in Reqs : PU_RecordFails(r)

Fulfillment ==
    \E o \in 1..Len(orders), f \in FulfillmentStatus : FU_Set(o, f)

Catalog ==
    \/ \E p \in Products, price \in 1..MaxPrice : AP_Read(p, price)
    \/ AP_Save
    \/ \E p \in Products : AP_Delete(p)

\* The payment updates that are refused: of an order that is not the user's
\* or does not exist, or with a body that is not a payment status.
PaymentRefused ==
    \/ \E r \in Reqs, u \in Users, n \in OrderNumbers, s \in PaymentInputs :
          PU_NotFound(r, u, n, s)
    \/ \E r \in Reqs, u \in Users, n \in OrderNumbers, s \in PaymentInputs :
          PU_Invalid(r, u, n, s)

Otp ==
    \/ \E i \in Issuers, phone \in Phones : I_MarkUsed(i, phone)
    \/ \E i \in Issuers : I_Create(i)
    \/ \E i \in Issuers, code \in Generated : I_SetCode(i, code)
    \/ \E v \in Verifiers, kind \in Kinds, phone \in Phones, code \in CodeInputs :
          V_Reject(v, kind, phone, code)
    \/ \E v \in Verifiers, kind \in Kinds, phone \in Phones, code \in CodeInputs :
          V_Read(v, kind, phone, code)
    \/ \E v \in Verifiers : V_Write(v)
    \/ OtpTick

\* Every operation, every input, in every interleaving.  The specifications
\* below it are the parts of it the properties are checked under.
Next ==
    \/ Checkout \/ Payment \/ PaymentRefused \/ Fulfillment \/ Catalog
    \/ DashboardGet \/ Tick \/ Otp

Spec == Init /\ [][Next]_vars

\* The checkout engine alone: two checkouts, every cart, in every interleaving.
SpecCheckout == Init /\ [][Checkout]_vars

\* The lifecycle specifications start from one catalog and place orders of one
\* line of the product without a tracked stock, the client total matching.
InitLifecycle ==
    /\ Init
    /\ products["A"].in_stock
    /\ products["A"].stock_quantity = Some(MaxStock)

PaidCarts == {<<l>> : l \in {x \in Lines : x.productId = "B"}}

OneCheckout ==
    \/ \E items \in PaidCarts :
          CO_Lock("t1", SessionUser["t1"], items, CatalogTotal(items, 1))
    \/ \E n \in OrderNumbers : CO_Run("t1", n)

NextLifecycle == OneCheckout \/ Payment \/ Fulfillment \/ Tick

\* The lifecycle of one order: its payment updates in every interleaving.
SpecLifecycle == InitLifecycle /\ [][NextLifecycle]_vars

TwoCheckouts ==
    \/ \E t \in Txns, items \in PaidCarts :
          CO_Lock(t, SessionUser[t], items, CatalogTotal(items, 1))
    \/ \E t \in Txns, n \in OrderNumbers : CO_Run(t, n)

PaymentOneAtATime ==
    \/ \E r \in Reqs, o \in 1..Len(orders), s \in PaymentStatus :
          /\ \A q \in Reqs : ppc[q] = "idle"
          /\ PU_Read(r, orders[o].user, orders[o].order_number, s)
    \/ \E r \in Reqs : PU_Save(r)
    \/ \E r \in Reqs : PU_Record(r)
    \/ \E r \in Reqs : PU_RecordFails(r)

NextSequential == TwoCheckouts \/ PaymentOneAtATime \/ Fulfillment \/ Tick

\* The lifecycle of two orders, the payment updates one after the other: a
\* sequence of setPaymentStatus calls.
SpecSequential == InitLifecycle /\ [][NextSequential]_vars

\* The sales of two orders placed on the same or on different days, the
\* payment updates one after the other.
NextSales == TwoCheckouts \/ PaymentOneAtATime \/ Tick

SpecSales == InitLifecycle /\ [][NextSales]_vars

\* Orders of the product without a tracked stock while the catalog is edited:
\* the price of the product changes and the product is deleted, while the
\* first order is paid and shipped.
CatalogOfPaid ==
    \/ \E price \in 1..MaxPrice : AP_Read("B", price)
    \/ AP_Save
    \/ AP_Delete("B")

PayFirst ==
    \/ \E s \in PaymentStatus :
          /\ 1 \in DOMAIN orders /\ npay = 0
          /\ PU_Read("r1", orders[1].user, orders[1].order_number, s)
    \/ PU_Save("r1")
    \/ PU_Record("r1")
    \/ PU_RecordFails("r1")

FulfillFirst == \E f \in FulfillmentStatus : FU_Set(1, f)

CheckoutsOfPaid ==
    \/ \E t \in Txns, items \in PaidCarts :
          CO_Lock(t, SessionUser[t], items, CatalogTotal(items, 1))
    \/ \E t \in Txns : CO_Run(t, IF t = "t1" THEN "N1" ELSE "N2")

NextCatalog == CheckoutsOfPaid \/ CatalogOfPaid \/ PayFirst \/ FulfillFirst

SpecCatalog == InitLifecycle /\ [][NextCatalog]_vars

\* The dashboard over the databases that checkouts, payment updates and the
\* deletion of a product leave: a catalog of six products, up to three orders
\* of up to three users, the first of any cart, paid or not.
DashProducts == {"A", "B", "C", "D", "E", "F"}

DashCatalog ==
    [p \in DashProducts |->
        [price_toman |-> IF p = "A" THEN 2 ELSE 1, in_stock |-> TRUE,
         stock_quantity |-> NULL]]

FullCart ==
    <<[productId |-> "A", quantity |-> 2], [productId |-> "B", quantity |-> 2],
      [productId |-> "C", quantity |-> 2], [productId |-> "D", quantity |-> 1],
      [productId |-> "E", quantity |-> 1], [productId |-> "F", quantity |-> 1]>>

DashCarts ==
    {FullCart}
    \cup {<<[productId |-> p, quantity |-> q]>> : p \in DashProducts, q \in 1..MaxQty}

FirstPlaced == [user : {"u1"}, items : DashCarts, payment_status : PaymentStatus]
SecondPlaced ==
    [user : {"u1", "u2"},
     items : {<<[productId |-> "F", quantity |-> q]>> : q \in 1..MaxQty},
     payment_status : PaymentStatus]
ThirdPlaced ==
    [user : Users, items : {<<[productId |-> "A", quantity |-> 1]>>},
     payment_status : PaymentStatus]

Histories ==
    {<<>>}
    \cup {<<a>> : a \in FirstPlaced}
    \cup {<<a, b>> : a \in FirstPlaced, b \in SecondPlaced}
    \cup {<<a, b, c>> : a \in FirstPlaced, b \in SecondPlaced, c \in ThirdPlaced}

DashNumber(i) == <<"N1", "N2", "N3">>[i]

\* The order the i-th checkout of a history made, after its payment update.
DashOrder(h, i) ==
    [NewOrder(h[i].user, DashNumber(i), ServerTotal(h[i].items, DashCatalog, 1), 1)
     EXCEPT !.payment_status = h[i].payment_status,
            !.status = StatusAfter(REQUIRES_PAYMENT, h[i].payment_status)]

\* The sales of the paid orders among the first n, recorded in order.
RECURSIVE DashSales(_, _)
DashSales(h, n) ==
    IF n = 0 THEN <<>>
    ELSE IF h[n].payment_status = PAID
         THEN RecordDailySalesForOrder(DashSales(h, n - 1), DashOrder(h, n))
         ELSE DashSales(h, n - 1)

InitDashboard ==
    /\ \E h \in Histories, deleted \in {{}, {"F"}} :
          /\ products = [p \in DashProducts \ deleted |-> DashCatalog[p]]
          /\ orders = [i \in 1..Len(h) |-> DashOrder(h, i)]
          /\ checkouts = {[order |-> i,
                           client_total_toman |-> DashOrder(h, i).amount_toman]
                          : i \in 1..Len(h)}
          /\ checkout_items =
                {x \in UNION {NewItems(i, h[i].items, DashCatalog) : i \in 1..Len(h)}
                   : x.product \notin deleted}
          /\ daily_sales = DashSales(h, Len(h))
          /\ fired = [i \in 1..Len(h) |-> IF h[i].payment_status = PAID THEN 1 ELSE 0]
          /\ edges = [i \in 1..Len(h) |-> IF h[i].payment_status = PAID THEN 1 ELSE 0]
    /\ today = 1
    /\ pc = [t \in Txns |-> "idle"]
    /\ tx = [t \in Txns |-> NoTx]
    /\ result = [t \in Txns |-> "none"]
    /\ ppc = [r \in Reqs |-> "idle"]
    /\ req = [r \in Reqs |-> NoReq]
    /\ npay = 0
    /\ refusal = [r \in Reqs |-> NoRefusal]
    /\ apc = "idle"
    /\ areq = NoAdm
    /\ overview = NULL
    /\ InitOtp

SpecDashboard == InitDashboard /\ [][DashboardGet]_vars

\* ------------------------------------------------------------------ claims
Done(t) == pc[t] = "idle" /\ result[t] # "none"
Running(t) == pc[t] = "locked" /\ pc'[t] = "idle"
Qty(t, i) == tx[t].items[i].quantity
Pid(t, i) == tx[t].items[i].productId
Tracked(p) == products[p].stock_quantity # NULL
Stock(p) == Val(products[p].stock_quantity)

\* A cart whose products all exist, are in stock and have the stock each line
\* asks for, in the catalog as it is.
Fillable(items) ==
    \A i \in 1..Len(items) :
        /\ items[i].productId \in DOMAIN products
        /\ products[items[i].productId].in_stock
        /\ Tracked(items[i].productId) => items[i].quantity <= Stock(items[i].productId)

\* A one-line cart of an in-stock product that tracks its stock, the client
\* total matching.
OneLineTracked(t, p) ==
    /\ Len(tx[t].items) = 1
    /\ Pid(t, 1) = p
    /\ p \in DOMAIN tx[t].by_id
    /\ tx[t].by_id[p].in_stock
    /\ tx[t].by_id[p].stock_quantity # NULL
    /\ tx[t].client_total_toman = tx[t].by_id[p].price_toman * Qty(t, 1)

\* C1: in every reachable state every product that tracks its stock has
\* stock_quantity >= 0, whatever carts were checked out and however the
\* checkouts interleaved, carts naming one product on two lines included.
C1_StockNeverNegative ==
    \A p \in DOMAIN products : Tracked(p) => Stock(p) >= 0

\* C1: a cart naming one product twice passed the per-line stock test against
\* the row as read, and its second decrement was refused.
C1_Witness ==
    \E t \in Txns :
        /\ Done(t) /\ result[t] = IntegrityError
        /\ Len(tx[t].items) = 2
        /\ Pid(t, 1) = Pid(t, 2)
        /\ Pid(t, 1) \in DOMAIN tx[t].by_id
        /\ tx[t].by_id[Pid(t, 1)].stock_quantity # NULL
        /\ Qty(t, 1) <= Val(tx[t].by_id[Pid(t, 1)].stock_quantity)
        /\ Qty(t, 2) <= Val(tx[t].by_id[Pid(t, 1)].stock_quantity)
        /\ Qty(t, 1) + Qty(t, 2) > Val(tx[t].by_id[Pid(t, 1)].stock_quantity)
        /\ Stock(Pid(t, 1)) >= 0

\* C5: a checkout of a fillable cart whose client total differs from the sum
\* of catalog price x quantity fails with TotalMismatch, by however little the
\* totals differ, and leaves orders, checkouts, items and products as they were.
C5_TotalMismatchNoEffect ==
    [][\A t \in Txns :
          (/\ Running(t)
           /\ Fillable(tx[t].items)
           /\ tx[t].client_total_toman # CatalogTotal(tx[t].items, 1))
          => /\ result'[t] = TotalMismatch
             /\ UNCHANGED <<products, orders, checkouts, checkout_items>>]_vars

\* C5: a fillable cart was refused for its total.
C5_Witness ==
    \E t \in Txns :
        /\ Done(t) /\ result[t] = TotalMismatch
        /\ tx[t].client_total_toman = CatalogTotal(tx[t].items, 1) + 1
        /\ orders = <<>> /\ checkouts = {} /\ checkout_items = {}

\* C6: a checkout that fails, for whatever reason and at whatever statement,
\* leaves no order, checkout or item and changes no product.
C6_AllOrNothing ==
    [][\A t \in Txns :
          (Running(t) /\ result'[t] # OK)
          => UNCHANGED <<products, orders, checkouts, checkout_items>>]_vars

\* C6: a checkout failed after its order, checkout and items were written (the
\* stock update was refused), and none of them is left.
C6_Witness ==
    \E t \in Txns :
        /\ Done(t) /\ result[t] = IntegrityError
        /\ Missing(tx[t].items, tx[t].by_id) = {}
        /\ orders = <<>> /\ checkouts = {} /\ checkout_items = {}
        /\ \A p \in DOMAIN tx[t].by_id : products[p] = tx[t].by_id[p]

\* C7: for a one-line cart of an in-stock product with stock S and a matching
\* total, a quantity above S fails with InsufficientStock (any quantity, once
\* S = 0), and the quantity S is accepted and leaves the stock at 0; the one
\* failure left to an accepted cart is the uniqueness of order_number, when the
\* number generated is already taken.
C7_StockBoundary ==
    [][\A t \in Txns, p \in Products :
          (Running(t) /\ OneLineTracked(t, p) /\ Tracked(p))
          => /\ Qty(t, 1) > Stock(p) => result'[t] = InsufficientStock
             /\ Qty(t, 1) = Stock(p) =>
                   \/ result'[t] = OK /\ products'[p].stock_quantity = Some(0)
                   \/ result'[t] = IntegrityError /\ orders # <<>>]_vars

\* C7: the whole stock was ordered, the stock is 0, and the next checkout of
\* the product failed with InsufficientStock.
C7_Witness ==
    \E t \in Txns, u \in Txns, p \in Products :
        /\ t # u /\ Done(t) /\ Done(u)
        /\ OneLineTracked(t, p) /\ OneLineTracked(u, p)
        /\ result[t] = OK
        /\ Qty(t, 1) = Val(tx[t].by_id[p].stock_quantity)
        /\ Qty(t, 1) >= 1
        /\ Stock(p) = 0
        /\ tx[u].by_id[p].stock_quantity = Some(0)
        /\ result[u] = InsufficientStock

\* Two finished one-line checkouts of the same tracked product; Avail is the
\* stock before either.
SamePair(t, u, p) ==
    /\ t # u /\ Done(t) /\ Done(u)
    /\ OneLineTracked(t, p) /\ OneLineTracked(u, p)
Avail(t, u, p) ==
    IF Val(tx[t].by_id[p].stock_quantity) >= Val(tx[u].by_id[p].stock_quantity)
    THEN Val(tx[t].by_id[p].stock_quantity)
    ELSE Val(tx[u].by_id[p].stock_quantity)
Bought(t) == IF result[t] = OK THEN Qty(t, 1) ELSE 0

\* C8 as stated: of two checkouts of one product whose quantities together
\* exceed the stock exactly one succeeds and the other fails with
\* InsufficientStock; when they do not exceed it neither fails for stock and
\* the stock is lowered by both.
C8_ExactlyOneSucceeds ==
    \A t \in Txns, u \in Txns, p \in Products :
        SamePair(t, u, p) =>
            /\ Qty(t, 1) + Qty(u, 1) > Avail(t, u, p) =>
                  \/ result[t] = OK /\ result[u] = InsufficientStock
                  \/ result[u] = OK /\ result[t] = InsufficientStock
            /\ Qty(t, 1) + Qty(u, 1) <= Avail(t, u, p) =>
                  /\ {result[t], result[u]} \subseteq {OK, IntegrityError}
                  /\ Stock(p) = Avail(t, u, p) - Bought(t) - Bought(u)

\* C8, amended: checkouts that name a common product never hold its row
\* together, and the row a checkout evaluates is the committed one; of two
\* checkouts whose quantities together exceed the stock at most one succeeds,
\* exactly one unless each quantity alone exceeds the stock, and the others fail
\* with InsufficientStock; when they do not exceed it neither fails for stock;
\* in both cases the stock is lowered by exactly the quantities that succeeded.
C8_Serialized ==
    /\ \A t \in Txns, u \in Txns :
          t # u => LockedBy(t) \cap LockedBy(u) = {}
    /\ \A t \in Txns : pc[t] = "locked" =>
          \A p \in DOMAIN tx[t].by_id : tx[t].by_id[p] = products[p]
    /\ \A t \in Txns, u \in Txns, p \in Products :
          SamePair(t, u, p) =>
              /\ Stock(p) = Avail(t, u, p) - Bought(t) - Bought(u)
              /\ Qty(t, 1) + Qty(u, 1) > Avail(t, u, p) =>
                    /\ ~(result[t] = OK /\ result[u] = OK)
                    /\ {result[t], result[u]} \subseteq {OK, InsufficientStock}
                    /\ (Qty(t, 1) <= Avail(t, u, p) \/ Qty(u, 1) <= Avail(t, u, p))
                          => OK \in {result[t], result[u]}
              /\ Qty(t, 1) + Qty(u, 1) <= Avail(t, u, p) =>
                    {result[t], result[u]} \subseteq {OK, IntegrityError}

\* C8: two checkouts of one product asked together for more than the stock;
\* the second read the stock the first had left, and failed.
C8_Witness ==
    \E t \in Txns, u \in Txns, p \in Products :
        /\ SamePair(t, u, p)
        /\ Qty(t, 1) <= Avail(t, u, p) /\ Qty(u, 1) <= Avail(t, u, p)
        /\ Qty(t, 1) + Qty(u, 1) > Avail(t, u, p)
        /\ result[t] = OK /\ result[u] = InsufficientStock
        /\ Val(tx[u].by_id[p].stock_quantity) = Avail(t, u, p) - Qty(t, 1)
        /\ Stock(p) = Avail(t, u, p) - Qty(t, 1)

\* C2: over any sequence of payment updates of an order, the sale of the order
\* is recorded once, at its first confirmation, and never again.
C2_RecordedOnce ==
    \A o \in DOMAIN fired : fired[o] <= 1

\* C3: of the payment updates of an order that run together, at most one sees
\* the order not yet PAID and records the sale: the sale is recorded no more
\* often than the stored payment_status went from another value to PAID.
C3_OneRecordPerEdge ==
    \A o \in DOMAIN fired : fired[o] <= edges[o]

\* C4: in every reachable state, an order is COMPLETED exactly when it is PAID.
C4_CompletedIffPaid ==
    \A o \in 1..Len(orders) :
        orders[o].status = COMPLETED <=> orders[o].payment_status = PAID

\* C9: a payment update to PAID of an order it read as PAID already leaves
\* every DailySales row as it was: the sale is not recorded again.
C9_RepeatPaidNotRecorded ==
    [][\A r \in Reqs :
          (/\ ppc[r] # "idle"
           /\ req[r].was_paid
           /\ req[r].payment_status = PAID
           /\ ppc'[r] # ppc[r])
          => daily_sales' = daily_sales]_vars

\* C9: the order was confirmed and its sale recorded once; a second update to
\* PAID has read it as PAID and saved.
C9_Witness ==
    \E r \in Reqs :
        /\ ppc[r] = "saved"
        /\ req[r].was_paid /\ req[r].payment_status = PAID
        /\ fired[req[r].order] = 1
        /\ \A q \in Reqs \ {r} : ppc[q] = "idle"
        /\ orders[req[r].order].created_at \in DOMAIN daily_sales
        /\ daily_sales[orders[req[r].order].created_at].orders_count = 1

\* C10: under every operation, no DailySales row is removed and neither the
\* total nor the orders_count of a row decreases.
C10_AppendOnly ==
    [][\A d \in DOMAIN daily_sales :
          /\ d \in DOMAIN daily_sales'
          /\ daily_sales'[d].total_toman >= daily_sales[d].total_toman
          /\ daily_sales'[d].orders_count >= daily_sales[d].orders_count]_vars

\* C10: an order was PAID, its sale recorded, and is now FAILED; the row of its
\* creation date still counts it.
C10_Witness ==
    \E o \in 1..Len(orders) :
        /\ orders[o].payment_status = FAILED
        /\ fired[o] = 1
        /\ \A r \in Reqs : ppc[r] = "idle"
        /\ orders[o].created_at \in DOMAIN daily_sales
        /\ daily_sales[orders[o].created_at] =
              [total_toman |-> orders[o].amount_toman, orders_count |-> 1]

\* The rows a step added.
NewCheckouts == checkouts' \ checkouts
NewCheckoutItems == checkout_items' \ checkout_items

\* C11: a checkout that succeeds adds exactly one order, REQUIRES_PAYMENT,
\* UNPAID and UNTRACKED, of the user, its amount the sum of catalog price x
\* quantity over the lines and equal to the client total; exactly one checkout
\* row for it; and exactly one item row per cart line, with the line's product
\* and quantity; the rows there were stay.
C11_OneOrderPerCheckout ==
    [][\A t \in Txns :
          (Running(t) /\ result'[t] = OK) =>
             LET oid == Len(orders) + 1
                 items == tx[t].items
             IN /\ Len(orders') = oid
                /\ SubSeq(orders', 1, Len(orders)) = orders
                /\ orders'[oid].status = REQUIRES_PAYMENT
                /\ orders'[oid].payment_status = UNPAID
                /\ orders'[oid].fulfillment_status = UNTRACKED
                /\ orders'[oid].user = tx[t].user
                /\ orders'[oid].amount_toman = CatalogTotal(items, 1)
                /\ orders'[oid].amount_toman = tx[t].client_total_toman
                /\ checkouts \subseteq checkouts'
                /\ Cardinality(NewCheckouts) = 1
                /\ \A c \in NewCheckouts : c.order = oid
                /\ checkout_items \subseteq checkout_items'
                /\ Cardinality(NewCheckoutItems) = Len(items)
                /\ \A i \in 1..Len(items) :
                      \E x \in NewCheckoutItems :
                          /\ x.checkout = oid /\ x.line = i
                          /\ x.product = items[i].productId
                          /\ x.quantity = items[i].quantity]_vars

\* C11: the cart [A x 2 at 2, B x 1 at 1] with client total 5 made an order of
\* amount 5, REQUIRES_PAYMENT, with one checkout and two items.
C11_Witness ==
    \E t \in Txns :
        /\ Done(t) /\ result[t] = OK
        /\ tx[t].items = <<[productId |-> "A", quantity |-> 2],
                           [productId |-> "B", quantity |-> 1]>>
        /\ tx[t].client_total_toman = 5
        /\ Len(orders) = 1
        /\ orders[1].amount_toman = 5
        /\ orders[1].status = REQUIRES_PAYMENT
        /\ Cardinality(checkouts) = 1
        /\ Cardinality(checkout_items) = 2

\* C12: a step that deletes no product -- a price change, a later checkout, a
\* payment update, a fulfillment update -- leaves every checkout row and every
\* item row (product, quantity, unit price, line total) as it was, and the
\* amount of every order.
C12_ItemsFrozen ==
    [][DOMAIN products \subseteq DOMAIN products' =>
          /\ checkouts \subseteq checkouts'
          /\ checkout_items \subseteq checkout_items'
          /\ Len(orders') >= Len(orders)
          /\ \A o \in 1..Len(orders) :
                orders'[o].amount_toman = orders[o].amount_toman]_vars

\* C12: the first order was placed at the price 1; the price is 2 now, a later
\* order was placed at 2, the first order is PAID and SHIPPED, and its item and
\* amount are those of the price 1.
C12_Witness ==
    \E x \in checkout_items, y \in checkout_items :
        /\ x.checkout = 1 /\ x.product = "B" /\ x.unit_price_toman = 1
        /\ x.line_total_toman = x.quantity
        /\ y.checkout = 2 /\ y.product = "B" /\ y.unit_price_toman = 2
        /\ "B" \in DOMAIN products /\ products["B"].price_toman = 2
        /\ orders[1].amount_toman = x.line_total_toman
        /\ orders[1].payment_status = PAID
        /\ orders[1].fulfillment_status = SHIPPED

\* The sum of the line totals of the items of an order.
RECURSIVE SumLineTotals(_)
SumLineTotals(items) ==
    IF items = {} THEN 0
    ELSE LET x == CHOOSE y \in items : TRUE
         IN x.line_total_toman + SumLineTotals(items \ {x})

ItemsOf(o) == {x \in checkout_items : x.checkout = o}

\* C13: whatever is deleted from the catalog, every item of every order is
\* kept, so that the amount of each order is the sum of the line totals of its
\* items.
C13_ItemsSurviveDelete ==
    \A o \in 1..Len(orders) : orders[o].amount_toman = SumLineTotals(ItemsOf(o))

\* A payment update in flight that will record the sale of order o.
RecordingPending(o) ==
    \E r \in Reqs :
        /\ ppc[r] # "idle"
        /\ req[r].order = o
        /\ PaymentConfirmed(req[r].was_paid, req[r].payment_status)

\* C14: in every reachable state an order stored as PAID has its sale recorded,
\* or a payment update in flight is about to record it: no failure leaves the
\* order PAID with a sale that a repeat of the request, which reads the order
\* as PAID already, will not record.
C14_PaidIsRecorded ==
    \A o \in 1..Len(orders) :
        orders[o].payment_status = PAID => fired[o] >= 1 \/ RecordingPending(o)

\* C15: a step that records the sale of an order writes the DailySales row of
\* the date the order was created on, whatever the date of the step: a row of
\* the order's amount and count 1 when the date had none, else the row with the
\* amount added and the count raised by 1; the rows of the other dates stay as
\* they were, and there is one row per date.
C15_SaleKeyedByCreationDate ==
    [][\A o \in DOMAIN fired :
          fired'[o] = fired[o] + 1 =>
             LET d == orders[o].created_at
                 a == orders[o].amount_toman
             IN /\ DOMAIN daily_sales' = DOMAIN daily_sales \cup {d}
                /\ daily_sales'[d] =
                      IF d \in DOMAIN daily_sales
                      THEN [total_toman |-> daily_sales[d].total_toman + a,
                            orders_count |-> daily_sales[d].orders_count + 1]
                      ELSE [total_toman |-> a, orders_count |-> 1]
                /\ \A e \in DOMAIN daily_sales \ {d} :
                      daily_sales'[e] = daily_sales[e]]_vars

\* C15: on day 2 the sales of an order of day 1 and of an order of day 2 are
\* recorded, each once, in the rows of their days.
C15_Witness ==
    /\ today = 2
    /\ Len(orders) = 2
    /\ orders[1].created_at = 1 /\ orders[2].created_at = 2
    /\ fired[1] = 1 /\ fired[2] = 1
    /\ DOMAIN daily_sales = {1, 2}
    /\ daily_sales[1] = [total_toman |-> orders[1].amount_toman, orders_count |-> 1]
    /\ daily_sales[2] = [total_toman |-> orders[2].amount_toman, orders_count |-> 1]

\* The transitions of payment_status the design lists.
ListedTransitions == {<<UNPAID, PAID>>, <<UNPAID, FAILED>>, <<PAID, FAILED>>}

\* C16: every step that changes the payment_status of an order takes it from
\* UNPAID to PAID, from UNPAID to FAILED or from PAID to FAILED.
C16_OnlyListedTransitions ==
    [][\A o \in 1..Len(orders) :
          orders'[o].payment_status # orders[o].payment_status
          => <<orders[o].payment_status, orders'[o].payment_status>>
                \in ListedTransitions]_vars

\* C17: for every order and every fulfillment status, whatever the order's
\* fulfillment_status and payment_status are, the update is accepted; it sets
\* fulfillment_status to the value given and leaves the order's payment_status,
\* status and amount, the other orders, DailySales and the products as they
\* were.
C17_FulfillmentUnconditional ==
    /\ [](\A o \in 1..Len(orders), f \in FulfillmentStatus : ENABLED FU_Set(o, f))
    /\ [][\A o \in 1..Len(orders), f \in FulfillmentStatus :
             FU_Set(o, f) =>
                /\ orders'[o] = [orders[o] EXCEPT !.fulfillment_status = f]
                /\ \A q \in 1..Len(orders) \ {o} : orders'[q] = orders[q]
                /\ Len(orders') = Len(orders)
                /\ UNCHANGED <<daily_sales, products, checkouts, checkout_items>>]_vars

\* C17: an order that was paid and whose payment then failed is SHIPPED, its
\* sale still recorded once, and can be set back to UNTRACKED.
C17_Witness ==
    /\ Len(orders) = 1
    /\ orders[1].fulfillment_status = SHIPPED
    /\ orders[1].payment_status = FAILED
    /\ fired[1] = 1
    /\ daily_sales[orders[1].created_at].orders_count = 1
    /\ ENABLED FU_Set(1, UNTRACKED)

\* The totals as the design defines them, over the orders in placement order.
RECURSIVE PaidRevenue(_)
PaidRevenue(n) ==
    IF n = 0 THEN 0
    ELSE (IF orders[n].payment_status = PAID THEN orders[n].amount_toman ELSE 0)
         + PaidRevenue(n - 1)

RECURSIVE PaidCount(_)
PaidCount(n) ==
    IF n = 0 THEN 0
    ELSE (IF orders[n].payment_status = PAID THEN 1 ELSE 0) + PaidCount(n - 1)

Customers == {u \in Users : \E o \in 1..Len(orders) : orders[o].user = u}

OverviewTotals(v) ==
    /\ v.totalRevenueToman = PaidRevenue(Len(orders))
    /\ v.totalOrders = PaidCount(Len(orders))
    /\ v.totalCustomers = Cardinality(Customers)

\* C18 as stated: the overview reports the sum of the amounts of the PAID
\* orders, their number, the number of users with an order of any payment
\* status, and as conversionRate the quotient of the last two, 0 without
\* customers.
C18_RateIsQuotient ==
    overview # NULL =>
        LET v == Val(overview)
        IN /\ OverviewTotals(v)
           /\ IF Cardinality(Customers) = 0 THEN v.conversionRate = 0
              ELSE v.conversionRate * Cardinality(Customers)
                      = RateScale * PaidCount(Len(orders))

\* C18, amended: the same totals, and as conversionRate the quotient rounded
\* to four decimals -- the ten-thousandth nearest to it -- and 0 without
\* customers.
C18_RateIsRoundedQuotient ==
    overview # NULL =>
        LET v == Val(overview)
            n == RateScale * PaidCount(Len(orders))
            d == Cardinality(Customers)
        IN /\ OverviewTotals(v)
           /\ IF d = 0 THEN v.conversionRate = 0
              ELSE /\ 2 * (v.conversionRate * d - n) <= d
                   /\ 2 * (n - v.conversionRate * d) <= d

\* C18: three orders of three users, one of them PAID: the overview reports
\* its amount, 1 order, 3 customers and the rate 0.3333.
C18_Witness ==
    /\ overview # NULL
    /\ Len(orders) = 3
    /\ Val(overview).totalOrders = 1
    /\ Val(overview).totalCustomers = 3
    /\ Val(overview).conversionRate = 3333
    /\ \E o \in 1..3 :
          /\ orders[o].payment_status = PAID
          /\ Val(overview).totalRevenueToman = orders[o].amount_toman

\* The quantity of a product on line i of order o, when the order is PAID.
LineQuantity(p, o, i) ==
    LET S == {x \in checkout_items : x.checkout = o /\ x.line = i /\ x.product = p}
    IN IF S = {} \/ orders[o].payment_status # PAID THEN 0
       ELSE (CHOOSE x \in S : TRUE).quantity

\* The quantity of a product over the items of the PAID orders, line by line.
RECURSIVE PaidQuantityFrom(_, _, _)
PaidQuantityFrom(p, o, i) ==
    IF o > Len(orders) THEN 0
    ELSE IF i > Len(FullCart) THEN PaidQuantityFrom(p, o + 1, 1)
    ELSE LineQuantity(p, o, i) + PaidQuantityFrom(p, o, i + 1)

PaidQuantity(p) == PaidQuantityFrom(p, 1, 1)

Sold == {p \in DashProducts : PaidQuantity(p) > 0}

\* C19: topProducts lists at most 5 products, each once, with the quantity of
\* its items in PAID orders, which is above 0, the greater quantity first; it
\* lists 5 of them, or all that were sold if they are fewer; and no product
\* it leaves out sold more than one it lists.
C19_TopProducts ==
    overview # NULL =>
        LET top == Val(overview).topProducts
            listed == {top[i].productId : i \in 1..Len(top)}
        IN /\ Len(top) <= 5
           /\ Len(top) = IF Cardinality(Sold) < 5 THEN Cardinality(Sold) ELSE 5
           /\ Cardinality(listed) = Len(top)
           /\ \A i \in 1..Len(top) :
                 /\ top[i].quantitySold = PaidQuantity(top[i].productId)
                 /\ top[i].quantitySold > 0
           /\ \A i \in 1..Len(top), j \in 1..Len(top) :
                 i < j => top[i].quantitySold >= top[j].quantitySold
           /\ \A p \in DashProducts \ listed, i \in 1..Len(top) :
                 PaidQuantity(p) <= top[i].quantitySold

\* C19: six products were sold in a PAID order and a seventh line was ordered
\* in an order that is not PAID; the overview lists five, and the product left
\* out sold as much as the last one listed.
C19_Witness ==
    /\ overview # NULL
    /\ Cardinality(Sold) = 6
    /\ Len(Val(overview).topProducts) = 5
    /\ \E o \in 1..Len(orders) :
          /\ orders[o].payment_status # PAID
          /\ \E x \in checkout_items : x.checkout = o
    /\ \E p \in Sold :
          /\ \A i \in 1..5 : Val(overview).topProducts[i].productId # p
          /\ PaidQuantity(p) = Val(overview).topProducts[5].quantitySold

\* A cart with no line or with a line of quantity below 1.
Malformed(items) ==
    Len(items) = 0 \/ \E i \in 1..Len(items) : items[i].quantity < 1

\* C20: a checkout request whose cart has no line or a line of quantity below
\* 1 ends with a validation error in the step it is received in: it takes no
\* product lock, then or later, and the step leaves products, orders,
\* checkouts and items as they were.
C20_MalformedRejected ==
    /\ [](\A t \in Txns :
             Malformed(tx[t].items) /\ tx[t] # NoTx
             => result[t] = ValidationError /\ LockedBy(t) = {})
    /\ [][\A t \in Txns :
             (tx[t] = NoTx /\ tx'[t] # NoTx /\ Malformed(tx'[t].items))
             => /\ result'[t] = ValidationError
                /\ pc'[t] = "idle"
                /\ UNCHANGED <<products, orders, checkouts, checkout_items>>]_vars

\* C20: a request of quantity 0 and a request with no item were refused; no
\* order, checkout or item exists and no product is locked.
C20_Witness ==
    \E t \in Txns, u \in Txns :
        /\ t # u
        /\ tx[t].items = <<[productId |-> "A", quantity |-> 0]>>
        /\ tx[u] # NoTx /\ tx[u].items = <<>>
        /\ result[t] = ValidationError /\ result[u] = ValidationError
        /\ LockedBy(t) = {} /\ LockedBy(u) = {}
        /\ orders = <<>> /\ checkouts = {} /\ checkout_items = {}

\* ------------------------------------------------- one checkout, any catalog
\* The values of a stock_quantity column.
StockValues == {NULL} \cup {Some(s) : s \in 0..MaxStock}

\* One checkout against every catalog of the two products: each of them in
\* stock or not, with an untracked or a tracked stock.
InitCreateOrder ==
    /\ \E a \in BOOLEAN, b \in BOOLEAN, sa \in StockValues, sb \in StockValues :
          products = [p \in Products |->
              IF p = "A"
              THEN [price_toman |-> 2, in_stock |-> a, stock_quantity |-> sa]
              ELSE [price_toman |-> 1, in_stock |-> b, stock_quantity |-> sb]]
    /\ orders = <<>>
    /\ checkouts = {}
    /\ checkout_items = {}
    /\ daily_sales = <<>>
    /\ today = 1
    /\ pc = [t \in Txns |-> "idle"]
    /\ tx = [t \in Txns |-> NoTx]
    /\ result = [t \in Txns |-> "none"]
    /\ ppc = [r \in Reqs |-> "idle"]
    /\ req = [r \in Reqs |-> NoReq]
    /\ npay = 0
    /\ refusal = [r \in Reqs |-> NoRefusal]
    /\ fired = <<>>
    /\ edges = <<>>
    /\ apc = "idle"
    /\ areq = NoAdm
    /\ overview = NULL
    /\ InitOtp

AnyCheckout ==
    \/ \E items \in Carts, d \in TotalOffsets :
          CO_Lock("t1", SessionUser["t1"], items, CatalogTotal(items, 1) + d)
    \/ \E n \in OrderNumbers : CO_Run("t1", n)

SpecCreateOrder == InitCreateOrder /\ [][AnyCheckout]_vars

\* The lines of a cart whose product is not in the catalog.
Unresolved(items) ==
    {i \in 1..Len(items) : items[i].productId \notin DOMAIN products}

\* A line the stock test refuses, in the catalog as it is.
Offending(items, i) ==
    \/ ~products[items[i].productId].in_stock
    \/ /\ Tracked(items[i].productId)
       /\ items[i].quantity > Stock(items[i].productId)

FirstOffending(items) ==
    CHOOSE i \in 1..Len(items) :
        Offending(items, i) /\ \A j \in 1..(i - 1) : ~Offending(items, j)

\* C21: a checkout fails in a fixed order.  With a product id that is not in
\* the catalog it fails with ProductsNotFound, the lines named being exactly
\* those of the absent ids, whatever the stock and the total.  Otherwise the
\* first line in cart order that the stock test refuses decides: OutOfStock
\* when its product is not in stock, whatever its stock_quantity, else
\* InsufficientStock.  TotalMismatch is the outcome only when every line
\* passes and the totals differ.
C21_FailureOrder ==
    [][\A t \in Txns :
          Running(t) =>
             LET items == tx[t].items
             IN IF Unresolved(items) # {}
                THEN /\ result'[t] = ProductsNotFound
                     /\ Missing(items, tx[t].by_id) = Unresolved(items)
                ELSE IF \E i \in 1..Len(items) : Offending(items, i)
                THEN result'[t] =
                        IF ~products[items[FirstOffending(items)].productId].in_stock
                        THEN OutOfStock ELSE InsufficientStock
                ELSE result'[t] = TotalMismatch
                        <=> tx[t].client_total_toman # CatalogTotal(items, 1)]_vars

\* C21: the first line asked for more than the stock of its product, the
\* second for a product that is not in stock though its stock would do, and
\* the client total was wrong: the checkout failed with InsufficientStock.
C21_Witness ==
    /\ Done("t1") /\ result["t1"] = InsufficientStock
    /\ tx["t1"].items = <<[productId |-> "A", quantity |-> 2],
                          [productId |-> "B", quantity |-> 1]>>
    /\ products["A"].in_stock /\ products["A"].stock_quantity = Some(1)
    /\ ~products["B"].in_stock /\ products["B"].stock_quantity = Some(1)
    /\ tx["t1"].client_total_toman # CatalogTotal(tx["t1"].items, 1)

\* The sum of the quantities of the lines of a cart that name a product.
RECURSIVE QuantityOf(_, _, _)
QuantityOf(items, p, i) ==
    IF i > Len(items) THEN 0
    ELSE (IF items[i].productId = p THEN items[i].quantity ELSE 0)
         + QuantityOf(items, p, i + 1)

\* A cart of products that are in the catalog, in stock and without a tracked
\* stock.
AllUntracked(items) ==
    \A i \in 1..Len(items) :
        /\ items[i].productId \in DOMAIN products
        /\ products[items[i].productId].in_stock
        /\ ~Tracked(items[i].productId)

\* C22: a checkout that succeeds leaves every product with a tracked stock at
\* its stock before the call less the quantities of all the lines that name
\* it -- as it was, then, for a product the cart does not name -- and every
\* product with an untracked stock untracked; it changes no price and no
\* in_stock flag, not even of a product whose stock it takes to 0, and adds or
\* removes no product.  A cart of in-stock products with an untracked stock is
\* accepted whatever its quantities, the total matching.
C22_StockDecrement ==
    [][\A t \in Txns :
          Running(t) =>
             LET items == tx[t].items
             IN /\ result'[t] = OK =>
                      /\ DOMAIN products' = DOMAIN products
                      /\ \A p \in DOMAIN products :
                            /\ products'[p].price_toman = products[p].price_toman
                            /\ products'[p].in_stock = products[p].in_stock
                            /\ products'[p].stock_quantity =
                                  IF Tracked(p)
                                  THEN Some(Stock(p) - QuantityOf(items, p, 1))
                                  ELSE NULL
                /\ (/\ AllUntracked(items)
                    /\ tx[t].client_total_toman = CatalogTotal(items, 1)
                    /\ orders = <<>>)
                   => result'[t] = OK]_vars

\* C22: two lines of quantity 1 named the product A of stock 2: the checkout
\* succeeded, A has the stock 0 and is in stock still at its price, and B, not
\* in the cart, has the stock it had.
C22_Witness ==
    /\ Done("t1") /\ result["t1"] = OK
    /\ tx["t1"].items = <<[productId |-> "A", quantity |-> 1],
                          [productId |-> "A", quantity |-> 1]>>
    /\ tx["t1"].by_id["A"].stock_quantity = Some(2)
    /\ products["A"] = [price_toman |-> 2, in_stock |-> TRUE,
                        stock_quantity |-> Some(0)]
    /\ products["B"].stock_quantity = Some(1)

\* ------------------------------------------- payment updates of any user
\* Two orders of two users, and the payment updates any of three users sends
\* for any order number, one after the other.
OwnedCart == <<[productId |-> "B", quantity |-> 1]>>

CheckoutsOfTwoUsers ==
    \/ \E t \in Txns :
          CO_Lock(t, SessionUser[t], OwnedCart, CatalogTotal(OwnedCart, 1))
    \/ \E t \in Txns : CO_Run(t, IF t = "t1" THEN "N1" ELSE "N2")

PaymentOfAnyUser ==
    \/ \E u \in Users, n \in OrderNumbers, s \in {PAID, Invalid} :
          PU_NotFound("r1", u, n, s)
    \/ \E u \in Users, n \in OrderNumbers : PU_Invalid("r1", u, n, Invalid)
    \/ \E u \in Users, n \in OrderNumbers, s \in PaymentStatus :
          PU_Read("r1", u, n, s)
    \/ PU_Save("r1")
    \/ PU_Record("r1")
    \/ PU_RecordFails("r1")

NextOwnership == CheckoutsOfTwoUsers \/ PaymentOfAnyUser \/ FulfillFirst

SpecOwnership == InitLifecycle /\ [][NextOwnership]_vars

\* A step of the payment request r.
PaymentStep(r) == ppc'[r] # ppc[r] \/ refusal'[r] # refusal[r]

\* C23: a step of a payment update, whatever status it sets and whatever the
\* order's state, changes no product, checkout or item and adds no order; of
\* the orders it changes only the one it loaded, and of that one only
\* payment_status and status -- fulfillment_status and amount stay; and it
\* changes DailySales only in recording the sale after a save that confirmed
\* the payment.
C23_PaymentFrame ==
    [][\A r \in Reqs :
          PaymentStep(r) =>
             /\ UNCHANGED <<products, checkouts, checkout_items>>
             /\ Len(orders') = Len(orders)
             /\ \A o \in 1..Len(orders) :
                   /\ orders'[o] = [orders[o] EXCEPT
                                       !.payment_status = orders'[o].payment_status,
                                       !.status = orders'[o].status]
                   /\ orders'[o] # orders[o] =>
                         /\ ppc[r] = "loaded" /\ req[r].order = o
                         /\ orders'[o].payment_status = req[r].payment_status
                   /\ orders'[o].status # orders[o].status =>
                         orders'[o].payment_status = PAID
             /\ daily_sales' # daily_sales =>
                   /\ ppc[r] = "saved"
                   /\ ~req[r].was_paid /\ req[r].payment_status = PAID]_vars

\* C23: the first order was paid and its sale recorded, it was shipped, and an
\* update to FAILED has been saved: the order is FAILED and SHIPPED still, its
\* amount and item are those of the checkout, and the order of the other user
\* is as it was placed.
C23_Witness ==
    /\ Len(orders) = 2
    /\ ppc["r1"] = "saved" /\ req["r1"].order = 1
    /\ req["r1"].was_paid /\ req["r1"].payment_status = FAILED
    /\ orders[1].payment_status = FAILED /\ orders[1].status = COMPLETED
    /\ orders[1].fulfillment_status = SHIPPED
    /\ orders[1].amount_toman = 1
    /\ fired[1] = 1
    /\ \E x \in checkout_items : x.checkout = 1 /\ x.line_total_toman = 1
    /\ orders[2] = NewOrder("u2", "N2", 1, 1) \/ orders[2] = NewOrder("u1", "N1", 1, 1)

\* A request whose cart passes every test of the function before its writes.
Accepted(r) ==
    /\ Missing(r.items, r.by_id) = {}
    /\ ValidateLines(r.items, r.by_id, 1) = OK
    /\ TotalsMatch(r.client_total_toman, ServerTotal(r.items, r.by_id, 1))

\* C24: in every reachable state the orders have order numbers that differ
\* from one another; and a checkout that has passed every test and generates
\* the number of an order there is fails, adds no order, checkout or item and
\* changes no product.
C24_OrderNumbersDistinct ==
    /\ [](\A i \in 1..Len(orders), j \in 1..Len(orders) :
             orders[i].order_number = orders[j].order_number => i = j)
    /\ [][\A t \in Txns, n \in OrderNumbers :
             (/\ CO_Run(t, n)
              /\ Accepted(tx[t])
              /\ \E o \in 1..Len(orders) : orders[o].order_number = n)
             => /\ result'[t] = IntegrityError
                /\ UNCHANGED <<products, orders, checkouts, checkout_items>>]_vars

\* C24: two checkouts passed every test; the first made an order; the second,
\* of a product whose stock it would have lowered, generated the same number
\* and failed: there is one order, with its items alone, and the stock is what
\* the first checkout left.
C24_Witness ==
    \E t \in Txns, u \in Txns :
        /\ t # u /\ Done(t) /\ Done(u)
        /\ result[t] = OK /\ result[u] = IntegrityError
        /\ Accepted(tx[t]) /\ Accepted(tx[u])
        /\ tx[t].items = <<[productId |-> "B", quantity |-> 1]>>
        /\ tx[u].items = <<[productId |-> "A", quantity |-> 1]>>
        /\ Len(orders) = 1
        /\ \A x \in checkout_items : x.checkout = 1 /\ x.product = "B"
        /\ products["A"] = tx[u].by_id["A"]

\* --------------------------------------------- the life of an order, any cart
\* One checkout of any cart against any catalog, then the payment update and
\* the fulfillment updates of the order it made.
PlaceOrder ==
    \/ \E items \in Carts \cup BadCarts, d \in TotalOffsets :
          CO_Lock("t1", SessionUser["t1"], items, CatalogTotal(items, 1) + d)
    \/ \E items \in Carts \cup BadCarts :
          CO_Reject("t1", SessionUser["t1"], items, CatalogTotal(items, 1))
    \/ \E n \in OrderNumbers : CO_Run("t1", n)

NextPlacedOrder == PlaceOrder \/ PayFirst \/ FulfillFirst

SpecPlacedOrder == InitCreateOrder /\ [][NextPlacedOrder]_vars

CheckoutsOf(o) == {c \in checkouts : c.order = o}

\* C25: in every state that checkouts, payment updates and fulfillment updates
\* lead to, every order has exactly one checkout, whose client total is the
\* order's amount, and at least one item; the amount is the sum of the line
\* totals of its items; and every item has a quantity of at least 1 and the
\* line total unit price x quantity.
C25_OrderConsistent ==
    \A o \in 1..Len(orders) :
        /\ Cardinality(CheckoutsOf(o)) = 1
        /\ \A c \in CheckoutsOf(o) : c.client_total_toman = orders[o].amount_toman
        /\ ItemsOf(o) # {}
        /\ orders[o].amount_toman = SumLineTotals(ItemsOf(o))
        /\ \A x \in ItemsOf(o) :
              /\ x.quantity >= 1
              /\ x.line_total_toman = x.unit_price_toman * x.quantity

\* C25: the order of the cart [A x 2 at 2, B x 1 at 1] is PAID and SHIPPED: its
\* amount and the client total of its checkout are 5, its items have the line
\* totals 4 and 1.
C25_Witness ==
    /\ Len(orders) = 1
    /\ orders[1].payment_status = PAID
    /\ orders[1].fulfillment_status = SHIPPED
    /\ orders[1].amount_toman = 5
    /\ checkouts = {[order |-> 1, client_total_toman |-> 5]}
    /\ {x.line_total_toman : x \in ItemsOf(1)} = {4, 1}
    /\ Cardinality(ItemsOf(1)) = 2

\* The sums of the DailySales rows from the date d onwards.
RECURSIVE SalesCount(_)
SalesCount(d) ==
    IF d > MaxDay + 1 THEN 0
    ELSE (IF d \in DOMAIN daily_sales THEN daily_sales[d].orders_count ELSE 0)
         + SalesCount(d + 1)

RECURSIVE SalesTotal(_)
SalesTotal(d) ==
    IF d > MaxDay + 1 THEN 0
    ELSE (IF d \in DOMAIN daily_sales THEN daily_sales[d].total_toman ELSE 0)
         + SalesTotal(d + 1)

\* C26: in every reachable state the DailySales rows together count at least
\* as many orders as are PAID, and their totals together are at least the sum
\* of the amounts of the PAID orders: every PAID order has been recorded.
C26_SalesCoverPaid ==
    /\ SalesCount(1) >= PaidCount(Len(orders))
    /\ SalesTotal(1) >= PaidRevenue(Len(orders))

\* The same with no payment update in flight.
C26_SalesCoverPaidAtRest ==
    (\A r \in Reqs : ppc[r] = "idle") => C26_SalesCoverPaid

\* The user u owns an order of the number n.
Owns(u, n) ==
    \E o \in 1..Len(orders) : orders[o].order_number = n /\ orders[o].user = u

\* C27: a payment update of a user for an order number that is not the number
\* of an order of that user -- the order of another user, or of no one -- is
\* answered NotFound, whatever its body, valid or not: it is neither accepted
\* nor refused as invalid.  The step that answers it changes no order and no
\* DailySales row.  And a step that changes the payment_status of an order is
\* the save of a request of the order's owner.
C27_OwnerOnly ==
    /\ [](\A r \in Reqs, u \in Users, n \in OrderNumbers, s \in PaymentInputs :
             (ppc[r] = "idle" /\ ~Owns(u, n))
             => /\ ENABLED PU_NotFound(r, u, n, s)
                /\ ~ENABLED PU_Read(r, u, n, s)
                /\ ~ENABLED PU_Invalid(r, u, n, s))
    /\ [][\A r \in Reqs :
             (refusal'[r] # refusal[r] /\ refusal'[r].response = NotFound)
             => UNCHANGED <<orders, daily_sales, ppc, req>>]_vars
    /\ [][\A o \in 1..Len(orders) :
             orders'[o].payment_status # orders[o].payment_status
             => \E r \in Reqs :
                   /\ ppc[r] = "loaded" /\ ppc'[r] = "saved"
                   /\ req[r].order = o
                   /\ req[r].user = orders[o].user]_vars

\* C27: an order was paid by its owner and the sale recorded; then another
\* user, who has an order of their own, sent a payment update for it, with a
\* body that is not a payment status, and was answered NotFound: the order is
\* PAID and the sale recorded once.
C27_Witness ==
    \E o \in 1..Len(orders), q \in 1..Len(orders) :
        /\ o # q
        /\ ppc["r1"] = "idle"
        /\ refusal["r1"] = [user |-> orders[q].user,
                            order_number |-> orders[o].order_number,
                            payment_status |-> Invalid,
                            response |-> NotFound]
        /\ orders[o].user # orders[q].user
        /\ orders[o].payment_status = PAID /\ orders[o].status = COMPLETED
        /\ fired[o] = 1
        /\ daily_sales[orders[o].created_at].orders_count = 1
        /\ orders[q].payment_status = UNPAID

\* ------------------------------------------------------- OTP verification
\* The OTP of a phone and two verify requests at a time, a login and a
\* password reset, with the code sent or another.
VerifierKind == [v \in Verifiers |-> IF v = "v1" THEN "login" ELSE "reset"]

IssueInTurn ==
    \/ otps = <<>> /\ I_MarkUsed("i1", "p1")
    \/ I_Create("i1")
    \/ I_SetCode("i1", "12345")

VerifyTogether ==
    \/ \E v \in Verifiers, code \in Generated :
          V_Read(v, VerifierKind[v], "p1", code)
    \/ \E v \in Verifiers : V_Write(v)
    \/ \E v \in Verifiers : V_Reject(v, VerifierKind[v], "p1", ShortCode)

NextVerify == IssueInTurn \/ VerifyTogether \/ OtpTick

InitVerify ==
    /\ Init
    /\ products["A"].in_stock
    /\ products["A"].stock_quantity = Some(MaxStock)

SpecVerify == InitVerify /\ [][NextVerify]_vars

\* C28: in every reachable state, of the verify requests that found the code
\* of an OTP row right at most one was answered with tokens: once a request
\* has succeeded with the row no other does, whether it comes after it or
\* read the row before the first one saved used = True.
C28_TokensOnce ==
    \A k \in 1..Len(otps) : tokens[k] <= 1

\* C29: in every reachable state the attempts left of an OTP row are between 0
\* and 5, each wrong code compared with the code of the row has taken one
\* attempt from it, so that no more than 5 wrong codes are ever compared with
\* it, and no request in flight has read a row without an attempt left.
C29_AttemptsBound ==
    /\ \A k \in 1..Len(otps) :
          /\ otps[k].attempts_left \in 0..DefaultAttempts
          /\ guesses[k] <= DefaultAttempts
          /\ (\A v \in Verifiers : vpc[v] = "idle")
                => otps[k].attempts_left = DefaultAttempts - guesses[k]
    /\ \A v \in Verifiers : vpc[v] = "loaded" => vreq[v].attempts_left >= 1

\* ------------------------------------------------------------- OTP issue
\* Two issue_otp calls for one phone at a time, and a verify request with the
\* placeholder code or a generated one.
IssueTogether ==
    \/ \E i \in Issuers : I_MarkUsed(i, "p1")
    \/ \E i \in Issuers : I_Create(i)
    \/ \E i \in Issuers, code \in Generated : I_SetCode(i, code)

VerifyOne ==
    \/ \E code \in {Placeholder, "12345"} : V_Read("v1", "login", "p1", code)
    \/ V_Write("v1")

NextIssue == IssueTogether \/ VerifyOne \/ OtpTick

SpecIssue == InitVerify /\ [][NextIssue]_vars

\* The rows of a phone a verify request would go on with: unused, unexpired.
Live(phone) ==
    {k \in UnusedOtps(otps, phone) : ~IsExpired(otps[k], minute)}

\* No request in flight has found the placeholder code right.
C30_PlaceholderRefused ==
    \A v \in Verifiers :
        (vpc[v] = "loaded" /\ vreq[v].matches) => vreq[v].code # Placeholder

\* With no issue_otp call in flight a phone has one live row at most.
C30_OneLiveRow ==
    (\A i \in Issuers : ipc[i] = "idle")
    => \A phone \in Phones : Cardinality(Live(phone)) <= 1

\* C30: in every reachable state the row a verify request reads for a phone --
\* the latest unused one, when it has not expired -- carries a generated code,
\* the one sent to the phone, and not the placeholder it was created with; no
\* request in flight has found the placeholder code right; and with no
\* issue_otp call in flight a phone has one unused unexpired row at most.
C30_CodeIsGenerated ==
    /\ \A phone \in Phones :
          Live(phone) # {} => otps[Latest(UnusedOtps(otps, phone))].code \in Generated
    /\ C30_PlaceholderRefused
    /\ C30_OneLiveRow

====
